---- MODULE Spec2Model ----
(***************************************************************************)
(* A model of the logalyzer ingestion-and-query engine.                    *)
(*                                                                         *)
(*   Spec        the load: producer (parse.rs), consumer (db.rs), the      *)
(*               bounded channel and thread wiring of main (main.rs), the  *)
(*               loading gate of AppState::draw (ui/mod.rs) and the query  *)
(*               worker (db.rs).                                           *)
(*   SpecQuery   the viewer over a loaded table: LogFile's input handlers  *)
(*               (ui/logs/mod.rs) and the query worker (db.rs).            *)
(*   SpecWindow  the viewer with filter lines typed and applied.           *)
(*   SpecFilter  the compilation of filters to SQL (logalang.rs, db.rs).   *)
(*   SpecParse   Parser::parse_line on its own (parse.rs).                 *)
(*   SpecParser  one Parser, built by Parser::new, run on several lines.   *)
(*   SpecLogalang  logalang::parse_line on a line of filter text.          *)
(*   SpecColumns   the viewer over formats of 0..MaxFormatColumns columns. *)
(*   SpecFold      logalang's to_filter on the pairs of a parse tree.      *)
(*   SpecFailure   the load with a store that can fail, threads scheduled  *)
(*                 fairly.                                                 *)
(*                                                                         *)
(* Text is modelled as a sequence of one-character strings, so that        *)
(* slicing, searching and escaping are computed as the code computes them. *)
(***************************************************************************)
EXTENDS Integers, Sequences, FiniteSets, TLC

(***************************************************************************)
(* Bounds of the model.                                                    *)
(***************************************************************************)
\* longest file whose lines are drawn freely from LineSet
MaxLines == 4
\* longest file of well-formed lines (long enough to fill the channel)
MaxLongFile == 18
\* largest configured batch size
MaxBatch == 2

(***************************************************************************)
(* Generic helpers on sequences.                                           *)
(***************************************************************************)
Min(a, b) == IF a < b THEN a ELSE b

Max(a, b) == IF a > b THEN a ELSE b

Range(s) == {s[k] : k \in DOMAIN s}

\* s[from..] in Rust's 0-based terms (the caller has checked from <= Len(s))
Tail0(s, from) == SubSeq(s, from + 1, Len(s))

\* s[from..to] in Rust's 0-based, end-exclusive terms
Slice0(s, from, to) == SubSeq(s, from + 1, to)

\* str::find(char): 0-based offset of the first occurrence, -1 for None
FindChar(s, ch) ==
    IF \E k \in 1..Len(s) : s[k] = ch
    THEN (CHOOSE k \in 1..Len(s) : s[k] = ch /\ \A j \in 1..(k - 1) : s[j] # ch) - 1
    ELSE -1

\* does t occur in s at 0-based offset k
OccursAt(s, t, k) == k + Len(t) <= Len(s) /\ SubSeq(s, k + 1, k + Len(t)) = t

\* str::find(&str): 0-based offset of the first occurrence, -1 for None
FindStr(s, t) ==
    IF \E k \in 0..Len(s) : OccursAt(s, t, k)
    THEN CHOOSE k \in 0..Len(s) : OccursAt(s, t, k) /\ \A j \in 0..(k - 1) : ~OccursAt(s, t, j)
    ELSE -1

\* str::split_once(sep) for a one-character separator: <<found, left, right>>
SplitOnce(s, sep) ==
    LET p == FindChar(s, sep)
    IN  IF p < 0 THEN [found |-> FALSE, left |-> s, right |-> <<>>]
        ELSE [found |-> TRUE, left |-> Slice0(s, 0, p), right |-> Tail0(s, p + 1)]

(***************************************************************************)
(* parse.rs: parse_datetime                                                *)
(***************************************************************************)
Digits == <<"0", "1", "2", "3", "4", "5", "6", "7", "8", "9">>

IsDigit(c) == \E d \in 1..10 : Digits[d] = c

DigitVal(c) == (CHOOSE d \in 1..10 : Digits[d] = c) - 1

\* the value of a string of at most nine digits
RECURSIVE DecimalValue(_)
DecimalValue(s) ==
    IF s = <<>> THEN 0
    ELSE 10 * DecimalValue(SubSeq(s, 1, Len(s) - 1)) + DigitVal(s[Len(s)])

\* the value of a digit string; 10^9 stands for every value of ten digits or
\* more (no check of the date grammar tells two such values apart)
Saturated == 1000000000

RECURSIVE StripZeros(_)
StripZeros(s) == IF Len(s) > 1 /\ s[1] = "0" THEN StripZeros(Tail(s)) ELSE s

\* a <= b for two digit strings of the same length
RECURSIVE DigitsLeq(_, _)
DigitsLeq(a, b) ==
    IF a = <<>> THEN TRUE
    ELSE IF DigitVal(a[1]) # DigitVal(b[1]) THEN DigitVal(a[1]) < DigitVal(b[1])
    ELSE DigitsLeq(Tail(a), Tail(b))

\* the digit string is at most the limit (a digit string without leading zeros)
FitsIn(s, limit) ==
    LET sig == StripZeros(s)
    IN  Len(sig) < Len(limit) \/ (Len(sig) = Len(limit) /\ DigitsLeq(sig, limit))

BoundedValue(s) ==
    IF Len(StripZeros(s)) > 9 THEN Saturated ELSE DecimalValue(StripZeros(s))

\* u32::MAX, i32::MAX and -i32::MIN
U32MaxDigits == <<"4", "2", "9", "4", "9", "6", "7", "2", "9", "5">>

I32MaxDigits == <<"2", "1", "4", "7", "4", "8", "3", "6", "4", "7">>

I32MinDigits == <<"2", "1", "4", "7", "4", "8", "3", "6", "4", "8">>

\* str::parse::<u32>(): an optional '+', then at least one digit, no overflow
ParseU32(s) ==
    LET body == IF s # <<>> /\ s[1] = "+" THEN Tail(s) ELSE s
    IN  IF body = <<>> \/ \E k \in 1..Len(body) : ~IsDigit(body[k])
        THEN [ok |-> FALSE, v |-> 0]
        ELSE IF ~FitsIn(body, U32MaxDigits) THEN [ok |-> FALSE, v |-> 0]
        ELSE [ok |-> TRUE, v |-> BoundedValue(body)]

\* str::parse::<i32>(): an optional sign, then at least one digit, no overflow
ParseI32(s) ==
    LET neg  == s # <<>> /\ s[1] = "-"
        body == IF s # <<>> /\ s[1] \in {"+", "-"} THEN Tail(s) ELSE s
    IN  IF body = <<>> \/ \E k \in 1..Len(body) : ~IsDigit(body[k])
        THEN [ok |-> FALSE, v |-> 0]
        ELSE IF ~FitsIn(body, IF neg THEN I32MinDigits ELSE I32MaxDigits)
        THEN [ok |-> FALSE, v |-> 0]
        ELSE [ok |-> TRUE, v |-> IF neg THEN 0 - BoundedValue(body) ELSE BoundedValue(body)]

IsLeapYear(y) == (y % 4 = 0 /\ y % 100 # 0) \/ y % 400 = 0

DaysInMonth(y, m) ==
    IF m = 2 THEN (IF IsLeapYear(y) THEN 29 ELSE 28)
    ELSE IF m \in {4, 6, 9, 11} THEN 30 ELSE 31

\* chrono's year range
MaxYear == 262142

\* NaiveDate::from_ymd_opt
ValidYmd(y, m, d) ==
    /\ y >= 0 - MaxYear - 1 /\ y <= MaxYear
    /\ m >= 1 /\ m <= 12
    /\ d >= 1 /\ d <= DaysInMonth(y, m)

\* NaiveDate::and_hms_milli_opt (a millisecond of 1000..1999 is a leap second)
ValidHmsMilli(h, mi, s, ms) ==
    /\ h < 24 /\ mi < 60 /\ s < 60
    /\ (ms < 1000 \/ (s = 59 /\ ms < 2000))

\* days from 1970-01-01 to y-m-d in the proleptic Gregorian calendar
DaysFromCivil(y, m, d) ==
    LET yy  == IF m <= 2 THEN y - 1 ELSE y
        era == yy \div 400
        yoe == yy - era * 400
        mp  == (m + 9) % 12
        doy == (153 * mp + 2) \div 5 + d - 1
        doe == yoe * 365 + yoe \div 4 - yoe \div 100 + doy
    IN  era * 146097 + doe - 719468

\* NaiveDateTime::timestamp_millis, kept as the pair of the day number and the
\* millisecond of the day: the value is days * 86400000 + ms
TimestampMillis(y, m, d, h, mi, s, ms) ==
    [days |-> DaysFromCivil(y, m, d),
     ms   |-> h * 3600000 + mi * 60000 + s * 1000 + ms]

NoDate == [some |-> FALSE, v |-> [days |-> 0, ms |-> 0]]

parse_datetime(date) ==
    LET p1 == SplitOnce(date, "-")
        p2 == SplitOnce(p1.right, "-")
        p3 == SplitOnce(p2.right, " ")
        p4 == SplitOnce(p3.right, ":")
        p5 == SplitOnce(p4.right, ":")
        p6 == SplitOnce(p5.right, ",")
        y  == ParseI32(p1.left)
        m  == ParseU32(p2.left)
        d  == ParseU32(p3.left)
        h  == ParseU32(p4.left)
        mi == ParseU32(p5.left)
        s  == ParseU32(p6.left)
        ms == ParseU32(p6.right)
    IN  IF ~(p1.found /\ p2.found /\ p3.found /\ p4.found /\ p5.found /\ p6.found)
        THEN NoDate
        ELSE IF ~(y.ok /\ m.ok /\ d.ok /\ h.ok /\ mi.ok /\ s.ok /\ ms.ok) THEN NoDate
        ELSE IF ~ValidYmd(y.v, m.v, d.v) THEN NoDate
        ELSE IF ~ValidHmsMilli(h.v, mi.v, s.v, ms.v) THEN NoDate
        ELSE [some |-> TRUE, v |-> TimestampMillis(y.v, m.v, d.v, h.v, mi.v, s.v, ms.v)]

(***************************************************************************)
(* parse.rs: Parser::parse_line                                            *)
(*                                                                         *)
(* The result is Ok(values), Err (the `?` of EmitEnumeration) or Panic (an *)
(* unwrap of None, or a slice whose range is out of bounds).               *)
(***************************************************************************)
RowString(s) == [type |-> "String", s |-> s, n |-> 0]

\* RowValue::Date; the first definition stores a date as an Integer
RowDate_as_integer(n) == [type |-> "Integer", s |-> <<>>, n |-> n]

RowDate(n) == [type |-> "Date", s |-> <<>>, n |-> n]

RowInteger(n) == [type |-> "Integer", s |-> <<>>, n |-> n]

ParseOk(values) == [kind |-> "Ok", values |-> values]

ParseErr == [kind |-> "Err", values |-> <<>>]

ParsePanic == [kind |-> "Panic", values |-> <<>>]

\* &line[begin..index] is in bounds
SliceOk(line, begin, index) == begin <= index /\ index <= Len(line)

\* Iterator::position; the first definition counts the variants from 1
EnumPosition_one_based(enums, value) ==
    IF \E k \in 1..Len(enums) : enums[k] = value
    THEN CHOOSE k \in 1..Len(enums) :
             enums[k] = value /\ \A j \in 1..(k - 1) : enums[j] # value
    ELSE -1

\* Iterator::position: 0-based index of the first equal variant, -1 for None
EnumPosition(enums, value) ==
    IF \E k \in 1..Len(enums) : enums[k] = value
    THEN (CHOOSE k \in 1..Len(enums) :
              enums[k] = value /\ \A j \in 1..(k - 1) : enums[j] # value) - 1
    ELSE -1

RECURSIVE ParseFrom(_, _, _, _, _, _)
ParseFrom(instructions, line, pc, index, begin_index, values) ==
    IF pc > Len(instructions) THEN ParseOk(values)
    ELSE
      LET ins == instructions[pc]
          next(ix, bg, vs) == ParseFrom(instructions, line, pc + 1, ix, bg, vs)
      IN  CASE ins.op = "EmitDate" ->
                 IF ~SliceOk(line, begin_index, index) THEN ParsePanic
                 ELSE LET date == parse_datetime(Slice0(line, begin_index, index))
                      IN  IF ~date.some THEN ParsePanic
                          ELSE next(index, begin_index, Append(values, RowDate(date.v)))
            [] ins.op = "EmitString" ->
                 IF ~SliceOk(line, begin_index, index) THEN ParsePanic
                 ELSE next(index, begin_index,
                           Append(values, RowString(Slice0(line, begin_index, index))))
            [] ins.op = "EmitEnumeration" ->
                 IF ~SliceOk(line, begin_index, index) THEN ParsePanic
                 ELSE LET idx == EnumPosition(ins.enums, Slice0(line, begin_index, index))
                      IN  IF idx < 0 THEN ParseErr
                          ELSE next(index, begin_index, Append(values, RowInteger(idx)))
            [] ins.op = "EmitRemainder" ->
                 IF begin_index > Len(line) THEN ParsePanic
                 ELSE next(index, begin_index,
                           Append(values, RowString(Tail0(line, begin_index))))
            [] ins.op = "Begin" -> next(index, index, values)
            [] ins.op = "Skip" -> next(index + ins.n, begin_index, values)
            [] ins.op = "SkipUntilChar" ->
                 IF index > Len(line) THEN ParsePanic
                 ELSE LET p == FindChar(Tail0(line, index), ins.ch)
                      IN  IF p < 0 THEN ParsePanic
                          ELSE next(index + p, begin_index, values)
            [] ins.op = "SkipUntilString" ->
                 IF index > Len(line) THEN ParsePanic
                 ELSE LET p == FindStr(Tail0(line, index), ins.text)
                      IN  IF p < 0 THEN ParsePanic
                          ELSE next(index + p, begin_index, values)

parse_line(instructions, line) == ParseFrom(instructions, line, 1, 0, 0, <<>>)

\* ParserInstruction
Begin == [op |-> "Begin"]

Skip(n) == [op |-> "Skip", n |-> n]

SkipUntilChar(ch) == [op |-> "SkipUntilChar", ch |-> ch]

SkipUntilString(text) == [op |-> "SkipUntilString", text |-> text]

EmitString == [op |-> "EmitString"]

EmitDate == [op |-> "EmitDate"]

EmitEnumeration(enums) == [op |-> "EmitEnumeration", enums |-> enums]

EmitRemainder == [op |-> "EmitRemainder"]

\* let mut values = Vec::new(), index = 0, begin_index = 0: the locals of a
\* run as it starts, after the runs before it; the first definition keeps
\* the values of the run before, as a vector held by the parser would
Locals_kept(runs) ==
    [values |-> IF runs = <<>> THEN <<>> ELSE runs[Len(runs)].result.values,
     index |-> 0, begin_index |-> 0]

Locals(runs) == [values |-> <<>>, index |-> 0, begin_index |-> 0]

\* Parser::parse_line(&self, line) as a run that follows earlier runs
Parser_parse_line(runs, instructions, line) ==
    ParseFrom(instructions, line, 1, Locals(runs).index, Locals(runs).begin_index,
              Locals(runs).values)

\* ColumnType
ColumnType_String == [type |-> "String", enums |-> <<>>]

ColumnType_Date == [type |-> "Date", enums |-> <<>>]

ColumnType_Enumeration(enums) == [type |-> "Enumeration", enums |-> enums]

\* ColumnDefinition::string, ::date, ::enumeration
ColumnDefinition(nice_name, column_type) ==
    [nice_name |-> nice_name, column_type |-> column_type]

\* Parser::new: the two vectors are stored as they are given
Parser_new(instructions, columns) == [instructions |-> instructions, columns |-> columns]

(***************************************************************************)
(* logalang.rs / db.rs: the filter language and its SQL compiler.          *)
(*                                                                         *)
(* SQL text is a sequence of pieces: every character that comes from user  *)
(* text, every quote and every percent sign is a piece of its own; the     *)
(* quote-free parts of the format strings (" LIKE ", " AND ", " OR ",      *)
(* "NOT (", ")", "WHERE ") and column names are kept whole.                *)
(***************************************************************************)
ContainsString(s) == [t |-> "ContainsString", s |-> s]

Not(e) == [t |-> "Not", e |-> e]

And(l, r) == [t |-> "And", l |-> l, r |-> r]

Or(l, r) == [t |-> "Or", l |-> l, r |-> r]

FilterRule(column_name, rules) == [column_name |-> column_name, rules |-> rules]

\* str::replace for a one-character pattern
RECURSIVE Replace(_, _, _)
Replace(text, from, to) ==
    IF text = <<>> THEN <<>>
    ELSE (IF text[1] = from THEN to ELSE <<text[1]>>) \o Replace(Tail(text), from, to)

\* filter.replace("'", "''"); the first definition leaves the text as it is
sanitize_filter_unescaped(filter) == filter

sanitize_filter(filter) == Replace(filter, "'", <<"'", "'">>)

\* the first definition writes Not without its parentheses
RECURSIVE Filter_get_sql_bare(_, _)
Filter_get_sql_bare(f, column_name) ==
    CASE f.t = "And" ->
           Filter_get_sql_bare(f.l, column_name) \o <<" AND ">>
               \o Filter_get_sql_bare(f.r, column_name)
      [] f.t = "Or" ->
           Filter_get_sql_bare(f.l, column_name) \o <<" OR ">>
               \o Filter_get_sql_bare(f.r, column_name)
      [] f.t = "Not" ->
           <<"NOT ">> \o Filter_get_sql_bare(f.e, column_name)
      [] f.t = "ContainsString" ->
           <<column_name, " LIKE ", "'", "%">> \o sanitize_filter(f.s) \o <<"%", "'">>

RECURSIVE Filter_get_sql(_, _)
Filter_get_sql(f, column_name) ==
    CASE f.t = "And" ->
           Filter_get_sql(f.l, column_name) \o <<" AND ">> \o Filter_get_sql(f.r, column_name)
      [] f.t = "Or" ->
           Filter_get_sql(f.l, column_name) \o <<" OR ">> \o Filter_get_sql(f.r, column_name)
      [] f.t = "Not" ->
           <<"NOT (">> \o Filter_get_sql(f.e, column_name) \o <<")">>
      [] f.t = "ContainsString" ->
           <<column_name, " LIKE ", "'", "%">> \o sanitize_filter(f.s) \o <<"%", "'">>

\* [String]::join(sep)
RECURSIVE Join(_, _)
Join(parts, sep) ==
    IF parts = <<>> THEN <<>>
    ELSE IF Len(parts) = 1 THEN parts[1]
    ELSE parts[1] \o sep \o Join(Tail(parts), sep)

\* the first definition joins the filters of a rule with OR
FilterRule_get_sql_any(rule) ==
    IF rule.rules = <<>> THEN <<>>
    ELSE <<"WHERE ">>
         \o Join([k \in 1..Len(rule.rules) |->
                      Filter_get_sql(rule.rules[k], rule.column_name)], <<" OR ">>)

FilterRule_get_sql(rule) ==
    IF rule.rules = <<>> THEN <<>>
    ELSE <<"WHERE ">>
         \o Join([k \in 1..Len(rule.rules) |->
                      Filter_get_sql(rule.rules[k], rule.column_name)], <<" AND ">>)

\* the rules of a request that compile to a predicate, in request order
RECURSIVE CompiledRules(_)
CompiledRules(rules) ==
    IF rules = <<>> THEN <<>>
    ELSE (IF FilterRule_get_sql(rules[1]) = <<>> THEN <<>>
          ELSE << Tail(FilterRule_get_sql(rules[1])) >>)
         \o CompiledRules(Tail(rules))

\* the WHERE clause of a read request: no clause for no rule, otherwise the
\* compiled rules joined with AND
WhereClause(rules) ==
    IF CompiledRules(rules) = <<>> THEN <<>>
    ELSE <<"WHERE ">> \o Join(CompiledRules(rules), <<" AND ">>)

(***************************************************************************)
(* How the store reads the SQL text that db.rs hands to it: tokens, string *)
(* literals with '' as the escaped quote, NOT before AND before OR, LIKE   *)
(* with % and _ as wildcards and letters compared without case.            *)
(***************************************************************************)
Tok(t) == [t |-> t, s |-> <<>>]

TokId(name) == [t |-> "id", s |-> <<name>>]

TokStr(s) == [t |-> "str", s |-> s]

\* a string literal whose opening quote precedes position k
RECURSIVE LexLiteral(_, _, _)
LexLiteral(sql, k, acc) ==
    IF k > Len(sql) THEN [ok |-> FALSE, s |-> acc, next |-> k]
    ELSE IF sql[k] = "'"
         THEN IF k + 1 <= Len(sql) /\ sql[k + 1] = "'"
              THEN LexLiteral(sql, k + 2, Append(acc, "'"))
              ELSE [ok |-> TRUE, s |-> acc, next |-> k + 1]
         ELSE LexLiteral(sql, k + 1, Append(acc, sql[k]))

Keywords == {" LIKE ", " AND ", " OR ", "NOT (", ")", "(", "WHERE "}

KeywordToks(piece) ==
    CASE piece = " LIKE " -> <<Tok("LIKE")>>
      [] piece = " AND " -> <<Tok("AND")>>
      [] piece = " OR " -> <<Tok("OR")>>
      [] piece = "NOT (" -> <<Tok("NOT"), Tok("LP")>>
      [] piece = ")" -> <<Tok("RP")>>
      [] piece = "(" -> <<Tok("LP")>>
      [] piece = "WHERE " -> <<Tok("WHERE")>>

ColumnNames == {"Column0", "Column1", "Column2", "message"}

RECURSIVE LexFrom(_, _, _)
LexFrom(sql, k, toks) ==
    IF k > Len(sql) THEN [ok |-> TRUE, toks |-> toks]
    ELSE IF sql[k] = "'"
         THEN LET lit == LexLiteral(sql, k + 1, <<>>)
              IN  IF ~lit.ok THEN [ok |-> FALSE, toks |-> toks]
                  ELSE LexFrom(sql, lit.next, Append(toks, TokStr(lit.s)))
    ELSE IF sql[k] \in Keywords THEN LexFrom(sql, k + 1, toks \o KeywordToks(sql[k]))
    ELSE IF sql[k] \in ColumnNames THEN LexFrom(sql, k + 1, Append(toks, TokId(sql[k])))
    ELSE LexFrom(sql, k + 1, Append(toks, Tok("junk")))

SqlLex(sql) == LexFrom(sql, 1, <<>>)

UpperCase == <<"A", "B", "C", "D", "E", "F", "G", "H", "I", "J", "K", "L", "M",
               "N", "O", "P", "Q", "R", "S", "T", "U", "V", "W", "X", "Y", "Z">>

LowerCase == <<"a", "b", "c", "d", "e", "f", "g", "h", "i", "j", "k", "l", "m",
               "n", "o", "p", "q", "r", "s", "t", "u", "v", "w", "x", "y", "z">>

Fold(c) ==
    IF \E k \in 1..26 : UpperCase[k] = c
    THEN LowerCase[CHOOSE k \in 1..26 : UpperCase[k] = c]
    ELSE c

RECURSIVE LikeMatch(_, _)
LikeMatch(text, pattern) ==
    IF pattern = <<>> THEN text = <<>>
    ELSE IF pattern[1] = "%"
         THEN \E k \in 0..Len(text) : LikeMatch(Tail0(text, k), Tail(pattern))
    ELSE IF text = <<>> THEN FALSE
    ELSE /\ (pattern[1] = "_" \/ Fold(pattern[1]) = Fold(text[1]))
         /\ LikeMatch(Tail(text), Tail(pattern))

EvalFail == [ok |-> FALSE, v |-> FALSE, pos |-> 0]

TokAt(toks, pos) == IF pos <= Len(toks) THEN toks[pos].t ELSE "end"

RECURSIVE EvalOr(_, _, _)
RECURSIVE EvalOrRest(_, _, _, _)
RECURSIVE EvalAnd(_, _, _)
RECURSIVE EvalAndRest(_, _, _, _)
RECURSIVE EvalNot(_, _, _)
RECURSIVE EvalPrimary(_, _, _)
EvalPrimary(toks, pos, row) ==
    IF TokAt(toks, pos) = "LP"
    THEN LET r == EvalOr(toks, pos + 1, row)
         IN  IF r.ok /\ TokAt(toks, r.pos) = "RP"
             THEN [ok |-> TRUE, v |-> r.v, pos |-> r.pos + 1]
             ELSE EvalFail
    ELSE IF /\ TokAt(toks, pos) = "id"
            /\ TokAt(toks, pos + 1) = "LIKE"
            /\ TokAt(toks, pos + 2) = "str"
            /\ toks[pos].s[1] \in DOMAIN row
         THEN [ok |-> TRUE, v |-> LikeMatch(row[toks[pos].s[1]], toks[pos + 2].s),
               pos |-> pos + 3]
    ELSE EvalFail

EvalNot(toks, pos, row) ==
    IF TokAt(toks, pos) = "NOT"
    THEN LET r == EvalNot(toks, pos + 1, row)
         IN  IF r.ok THEN [ok |-> TRUE, v |-> ~r.v, pos |-> r.pos] ELSE EvalFail
    ELSE EvalPrimary(toks, pos, row)

EvalAndRest(toks, pos, row, acc) ==
    IF TokAt(toks, pos) = "AND"
    THEN LET r == EvalNot(toks, pos + 1, row)
         IN  IF r.ok THEN EvalAndRest(toks, r.pos, row, acc /\ r.v) ELSE EvalFail
    ELSE [ok |-> TRUE, v |-> acc, pos |-> pos]

EvalAnd(toks, pos, row) ==
    LET r == EvalNot(toks, pos, row)
    IN  IF r.ok THEN EvalAndRest(toks, r.pos, row, r.v) ELSE EvalFail

EvalOrRest(toks, pos, row, acc) ==
    IF TokAt(toks, pos) = "OR"
    THEN LET r == EvalAnd(toks, pos + 1, row)
         IN  IF r.ok THEN EvalOrRest(toks, r.pos, row, acc \/ r.v) ELSE EvalFail
    ELSE [ok |-> TRUE, v |-> acc, pos |-> pos]

EvalOr(toks, pos, row) ==
    LET r == EvalAnd(toks, pos, row)
    IN  IF r.ok THEN EvalOrRest(toks, r.pos, row, r.v) ELSE EvalFail

\* does the row pass the (possibly empty) WHERE clause; ok is FALSE when the
\* store rejects the text
SqlWhere(where, row) ==
    LET lexed == SqlLex(where)
        toks  == lexed.toks
        r     == EvalOr(toks, 2, row)
    IN  IF where = <<>> THEN [ok |-> TRUE, v |-> TRUE]
        ELSE IF ~lexed.ok \/ TokAt(toks, 1) # "WHERE" THEN [ok |-> FALSE, v |-> FALSE]
        ELSE IF ~r.ok \/ r.pos # Len(toks) + 1 THEN [ok |-> FALSE, v |-> FALSE]
        ELSE [ok |-> TRUE, v |-> r.v]

(***************************************************************************)
(* The state of the program.                                               *)
(***************************************************************************)
VARIABLES
    \* the input file (a sequence of lines) and the configured batch size
    file, batch_size,
    \* producer (parse.rs): position, next line, batch being built, line count
    ppc, lineIdx, batch, i,
    \* the channel of main (main.rs): the batches in flight
    chan,
    \* consumer (db.rs): position, the table `row`, transaction open, commits
    cpc, store, txOpen, commits,
    \* the main thread (main.rs)
    mainPc,
    \* LoadingProgress: the four counters read by AppState::draw
    total_bytes, parsed_bytes, rows_parsed, rows_inserted,
    \* DbApi (db.rs): request and response channels, the worker and its request
    reqQ, respQ, wpc, wreq,
    \* the build: TRUE when integer overflow panics, FALSE when it wraps
    overflow_checks,
    \* AppState (ui/mod.rs), and the number of events it has handled
    vpc, logOpen, show_console, should_quit, events,
    \* LogFile (ui/logs/mod.rs)
    total_rows, selected, tableOffset, loading, rows, renderable_rows, mode,
    logShouldQuit, show_preview, filter_values, filter_active_value_idx,
    filter_text,
    \* ColumnList (ui/columns.rs)
    colSelected, colVisible,
    \* the filter compiler on its own: the rules handed to it, the text that
    \* FilterRule::get_sql returns for each, the WHERE clause of the request,
    \* and whether it has run
    flt_rules, flt_rule_sql, flt_sql, flt_done,
    \* the filter parser on its own: the line handed to logalang::parse_line
    \* and what it has returned
    flt_line, flt_parsed,
    \* to_filter on its own: the pairs of the parse tree handed to it and the
    \* Filter it has returned
    flt_pairs, flt_filter,
    \* the line parser on its own: its instructions, the line handed to it,
    \* and what parse_line has returned
    prs_instructions, prs_line, prs_result,
    \* a Parser used for several lines: its columns, and the line and the
    \* outcome of each run of parse_line so far
    prs_columns, prs_runs

ingestVars == <<file, batch_size, ppc, lineIdx, batch, i, chan, cpc, store, txOpen,
                commits, mainPc>>

progressVars == <<total_bytes, parsed_bytes, rows_parsed, rows_inserted>>

dbVars == <<reqQ, respQ, wpc, wreq>>

appVars == <<vpc, logOpen, show_console, should_quit, events>>

logVars == <<total_rows, selected, tableOffset, loading, rows, renderable_rows, mode,
             logShouldQuit, show_preview, filter_values, filter_active_value_idx,
             filter_text>>

colVars == <<colSelected, colVisible>>

filterVars == <<flt_rules, flt_rule_sql, flt_sql, flt_done, flt_line, flt_parsed,
                flt_pairs, flt_filter>>

parserVars == <<prs_instructions, prs_line, prs_result, prs_columns, prs_runs>>

\* the state of the two pure computations
pureVars == <<filterVars, parserVars>>

vars == <<ingestVars, progressVars, dbVars, overflow_checks, appVars, logVars, colVars,
          pureVars>>

(***************************************************************************)
(* Inputs of the load.                                                     *)
(***************************************************************************)
\* the format of the load: {Level:ENUM(I,W)} {Message:REST}
LoadFormat ==
    << Begin, SkipUntilChar(" "), EmitEnumeration(<< <<"I">>, <<"W">> >>),
       Skip(1), Begin, EmitRemainder >>

\* the number of columns of the format
ColumnCount == 2

LineInfo == <<"I", " ", "a">>

LineWarn == <<"W", " ", "b">>

\* no variant of the enumeration: parse_line returns Err
LineUnknownLevel == <<"X", " ", "c">>

\* no delimiter: parse_line panics
LineNoDelimiter == <<"x">>

LineSet == {LineInfo, LineWarn, LineUnknownLevel, LineNoDelimiter}

RECURSIVE SeqsUpTo(_, _)
SeqsUpTo(S, n) ==
    IF n = 0 THEN {<<>>}
    ELSE LET shorter == SeqsUpTo(S, n - 1)
         IN  shorter \cup {Append(q, x) : q \in {r \in shorter : Len(r) = n - 1}, x \in S}

WellFormedFile(n) == [k \in 1..n |-> IF k % 2 = 1 THEN LineInfo ELSE LineWarn]

Files == SeqsUpTo(LineSet, MaxLines) \cup {WellFormedFile(n) : n \in 0..MaxLongFile}

\* the size of lines lo..hi of the file: every line with its terminator
RECURSIVE BytesOf(_, _, _)
BytesOf(f, lo, hi) ==
    IF lo > hi THEN 0
    ELSE IF lo = hi THEN Len(f[lo]) + 1
    ELSE LET mid == (lo + hi) \div 2
         IN  BytesOf(f, lo, mid) + BytesOf(f, mid + 1, hi)

FileBytes(f) == BytesOf(f, 1, Len(f))

(***************************************************************************)
(* LoadingProgress: where the load publishes its counters.                 *)
(***************************************************************************)
CountParsedBytes(count, line) == count + Len(line) + 1

CountParsedRows(count) == count + 1

CountInsertedRows(count, inserted) == count + Len(inserted)

(***************************************************************************)
(* main.rs: the channel.                                                   *)
(***************************************************************************)
\* mpsc::sync_channel(16)
ChanCap == 16

\* SyncSender::send completes only while the buffer has room; the first
\* definition is a channel that never makes the sender wait
CanSend_unbounded(c) == TRUE

CanSend(c) == Len(c) < ChanCap

SenderDropped == ppc \in {"done", "panicked"}

\* a sender that never learns that the receiver is gone
ReceiverDropped_unnoticed == FALSE

ReceiverDropped == cpc \in {"done", "panicked"}

ProcessAlive == mainPc # "exited"

(***************************************************************************)
(* parse.rs: producer                                                      *)
(***************************************************************************)
\* batch.len() >= batch_size; the first definition flushes one row late
BatchFull_late(b, size) == Len(b) > size

BatchFull(b, size) == Len(b) >= size

\* one iteration of `for line in reader.lines()` up to the send
ProducerLine ==
    /\ ProcessAlive /\ ppc = "read" /\ lineIdx <= Len(file)
    /\ LET line   == file[lineIdx]
           parsed == parse_line(LoadFormat, line)
       IN  IF parsed.kind # "Ok"
           THEN \* parse_line panicked, or .unwrap() of its Err: the thread
                \* unwinds and drops the batch and the sender
                /\ ppc' = "panicked"
                /\ mainPc' = "panicked"
                /\ batch' = <<>>
                /\ UNCHANGED <<lineIdx, i, progressVars>>
           ELSE /\ batch' = Append(batch, [line |-> lineIdx, values |-> parsed.values])
                /\ lineIdx' = lineIdx + 1
                /\ parsed_bytes' = CountParsedBytes(parsed_bytes, line)
                /\ rows_parsed' = CountParsedRows(rows_parsed)
                /\ UNCHANGED <<total_bytes, rows_inserted>>
                /\ IF BatchFull(batch', batch_size)
                   THEN ppc' = "send" /\ i' = i
                   ELSE ppc' = "read" /\ i' = i + 1
                /\ UNCHANGED mainPc
    /\ UNCHANGED <<file, batch_size, chan, cpc, store, txOpen, commits>>
    /\ UNCHANGED <<dbVars, overflow_checks, pureVars, appVars, logVars, colVars>>

\* send.send(old_vec).unwrap()
ProducerSend ==
    /\ ProcessAlive /\ ppc = "send"
    /\ IF ReceiverDropped
       THEN /\ ppc' = "panicked"
            /\ mainPc' = "panicked"
            /\ batch' = <<>>
            /\ UNCHANGED <<chan, i>>
       ELSE /\ CanSend(chan)
            /\ chan' = Append(chan, batch)
            /\ batch' = <<>>
            /\ i' = i + 1
            /\ ppc' = "read"
            /\ UNCHANGED mainPc
    /\ UNCHANGED <<file, batch_size, lineIdx, cpc, store, txOpen, commits>>
    /\ UNCHANGED <<progressVars, dbVars, overflow_checks, pureVars, appVars, logVars, colVars>>

\* the end of the file: the function returns, its batch and sender are dropped
ProducerEof ==
    /\ ProcessAlive /\ ppc = "read" /\ lineIdx > Len(file)
    /\ ppc' = "done"
    /\ batch' = <<>>
    /\ mainPc' = "join"
    /\ UNCHANGED <<file, batch_size, lineIdx, i, chan, cpc, store, txOpen, commits>>
    /\ UNCHANGED <<progressVars, dbVars, overflow_checks, pureVars, appVars, logVars, colVars>>

(***************************************************************************)
(* db.rs: consumer                                                         *)
(***************************************************************************)
\* INSERT of one batch: identities continue after the largest one; the first
\* definition binds the rows of the batch last to first
InsertRows_reversed(table, inserted) ==
    table \o [k \in 1..Len(inserted) |->
                 [id |-> Len(table) + k, line |-> inserted[Len(inserted) + 1 - k].line,
                  values |-> inserted[Len(inserted) + 1 - k].values]]

InsertRows(table, inserted) ==
    table \o [k \in 1..Len(inserted) |->
                 [id |-> Len(table) + k, line |-> inserted[k].line,
                  values |-> inserted[k].values]]

\* open, PRAGMAs, CREATE TABLE, CREATE INDEX, conn.transaction(), prepare
ConsumerOpen ==
    /\ ProcessAlive /\ cpc = "open"
    /\ cpc' = "recv"
    /\ txOpen' = TRUE
    /\ UNCHANGED <<file, batch_size, ppc, lineIdx, batch, i, chan, store, commits, mainPc>>
    /\ UNCHANGED <<progressVars, dbVars, overflow_checks, pureVars, appVars, logVars, colVars>>

\* one iteration of `for rows in recv`: the statement has batch_size rows of
\* parameters, and executing it with another number of values is an error
ConsumerRecv ==
    /\ ProcessAlive /\ cpc = "recv" /\ chan # <<>>
    /\ chan' = Tail(chan)
    /\ IF Len(Head(chan)) = batch_size
       THEN /\ store' = InsertRows(store, Head(chan))
            /\ rows_inserted' = CountInsertedRows(rows_inserted, Head(chan))
            /\ UNCHANGED <<cpc, txOpen>>
       ELSE \* .unwrap() panics; the transaction is dropped and rolled back
            /\ cpc' = "panicked"
            /\ txOpen' = FALSE
            /\ store' = <<>>
            /\ UNCHANGED rows_inserted
    /\ UNCHANGED <<file, batch_size, ppc, lineIdx, batch, i, commits, mainPc>>
    /\ UNCHANGED <<total_bytes, parsed_bytes, rows_parsed>>
    /\ UNCHANGED <<dbVars, overflow_checks, pureVars, appVars, logVars, colVars>>

\* the channel is closed and drained: conn.commit()
ConsumerCommit ==
    /\ ProcessAlive /\ cpc = "recv" /\ chan = <<>> /\ SenderDropped
    /\ commits' = commits + 1
    /\ txOpen' = FALSE
    /\ cpc' = "done"
    /\ UNCHANGED <<file, batch_size, ppc, lineIdx, batch, i, chan, store, mainPc>>
    /\ UNCHANGED <<progressVars, dbVars, overflow_checks, pureVars, appVars, logVars, colVars>>

(***************************************************************************)
(* main.rs: main                                                           *)
(***************************************************************************)
\* handle.join().unwrap()
MainJoin ==
    /\ mainPc = "join" /\ ReceiverDropped
    /\ mainPc' = IF cpc = "done" THEN "ui" ELSE "panicked"
    /\ UNCHANGED <<file, batch_size, ppc, lineIdx, batch, i, chan, cpc, store, txOpen,
                   commits>>
    /\ UNCHANGED <<progressVars, dbVars, overflow_checks, pureVars, appVars, logVars, colVars>>

\* a panic of the main thread ends the process, and with it every thread
ProcessExit ==
    /\ mainPc = "panicked"
    /\ mainPc' = "exited"
    /\ UNCHANGED <<file, batch_size, ppc, lineIdx, batch, i, chan, cpc, store, txOpen,
                   commits>>
    /\ UNCHANGED <<progressVars, dbVars, overflow_checks, pureVars, appVars, logVars, colVars>>

(***************************************************************************)
(* db.rs: the table `row` as the store reads it.                           *)
(***************************************************************************)
RECURSIVE DecimalText(_)
DecimalText(n) ==
    IF n < 10 THEN <<Digits[n + 1]>>
    ELSE Append(DecimalText(n \div 10), Digits[(n % 10) + 1])

\* the decimal text of days * 86400000 + ms (a time from 1970 on)
DateText(date) ==
    LET high == date.days * 864 + date.ms \div 100000
        low  == date.ms % 100000
        pad  == [k \in 1..(5 - Len(DecimalText(low))) |-> "0"]
    IN  IF high = 0 THEN DecimalText(low) ELSE DecimalText(high) \o pad \o DecimalText(low)

\* the text that LIKE compares for a stored value
ValueText(value) ==
    CASE value.type = "String" -> value.s
      [] value.type = "Integer" -> DecimalText(value.n)
      [] value.type = "Date" -> DateText(value.n)

\* the columns of a stored row by name: the identity, the columns of the
\* format in order, and `message` for the last one
RowColumns(row) ==
    [name \in ColumnNames |->
        CASE name = "Column0" -> DecimalText(row.id)
          [] name = "Column1" -> ValueText(row.values[1])
          [] name = "Column2" -> ValueText(row.values[2])
          [] name = "message" -> ValueText(row.values[Len(row.values)])]

ProbeRow == [name \in ColumnNames |-> <<>>]

\* the store accepts the statement built for these rules
QueryOk(rules) == SqlWhere(WhereClause(rules), ProbeRow).ok

\* LIMIT ?1 OFFSET ?2; the first definition is a read without LIMIT
LimitOffset_unlimited(matching, limit, offset) ==
    SubSeq(matching, offset + 1, Len(matching))

LimitOffset(matching, limit, offset) ==
    SubSeq(matching, offset + 1, Min(offset + limit, Len(matching)))

\* the identities of the rows that the SELECT of get_rows returns
get_rows(table, limit, offset, rules) ==
    LET Passes(row) == SqlWhere(WhereClause(rules), RowColumns(row)).v
        matching    == SelectSeq(table, Passes)
    IN  LimitOffset([k \in 1..Len(matching) |-> matching[k].id], limit, offset)

(***************************************************************************)
(* usize arithmetic.  A negative number n stands for 2^64 + n, the value   *)
(* that a subtraction below zero wraps to when overflow checks are off, so *)
(* sums and differences are the plain ones and only the order and the      *)
(* overflow conditions need care.                                          *)
(***************************************************************************)
Wrapped(n) == n < 0

\* a < b
ULess(a, b) == IF Wrapped(a) = Wrapped(b) THEN a < b ELSE Wrapped(b)

UMin(a, b) == IF ULess(a, b) THEN a ELSE b

\* a + b leaves the range (b is small)
UAddOverflows(a, b) == Wrapped(a) /\ a + b >= 0

\* a - b leaves the range
USubOverflows(a, b) == ULess(a, b)

(***************************************************************************)
(* db.rs: DbApi and db_thread                                              *)
(***************************************************************************)
DbRequest(offset, limit, filter) ==
    [id |-> 0, offset |-> offset, limit |-> limit, filter |-> filter]

DbResponse(req, fetched) ==
    [id |-> req.id, limit |-> req.limit, offset |-> req.offset, rows |-> fetched]

\* what identifies a request or a response
Header(m) == [id |-> m.id, offset |-> m.offset, limit |-> m.limit]

\* Receiver::try_recv on a channel with the messages q
try_recv(q, senderDropped) ==
    IF q # <<>> THEN [t |-> "Ok", v |-> Head(q)]
    ELSE IF senderDropped THEN [t |-> "Disconnected"]
    ELSE [t |-> "Empty"]

None == [some |-> FALSE]

Some(v) == [some |-> TRUE, v |-> v]

\* Result::ok
ResultOk(result) == IF result.t = "Ok" THEN Some(result.v) ELSE None

\* DbApi::get_response: self.receiver.try_recv().ok(); the worker drops its
\* sender when it panics
DbApi_get_response == ResultOk(try_recv(respQ, wpc = "panicked"))

\* the threads that hold a Connection to threaded_batched.db: the consumer
\* from Connection::open to its return or panic, the worker from the
\* Connection::open before its loop for as long as it runs
ConnectionHolders ==
    (IF ProcessAlive /\ cpc = "recv" THEN {"consumer"} ELSE {})
    \cup (IF ProcessAlive /\ wpc # "panicked" THEN {"worker"} ELSE {})

\* the write transaction of the consumer holds the store (locking_mode =
\* EXCLUSIVE), and before ConsumerOpen the table does not exist
StoreReadable == cpc # "open" /\ ~txOpen

\* params![limit, offset]: a usize is bound as a signed 64-bit integer, and
\* one that does not fit is an error
BindsAsI64(n) == ~Wrapped(n)

\* while let Ok(req) = requests.recv()
WorkerRecv ==
    /\ ProcessAlive /\ wpc = "recv" /\ reqQ # <<>>
    /\ wreq' = Head(reqQ)
    /\ reqQ' = Tail(reqQ)
    /\ wpc' = "select"
    /\ UNCHANGED respQ
    /\ UNCHANGED <<ingestVars, progressVars, overflow_checks, pureVars, appVars, logVars, colVars>>

\* get_rows(..) and responses.send(..).unwrap().  Every failure of the read
\* is an unwrap that ends the worker.  A read that finds the store locked by
\* the open transaction waits ("busy") until the lock is gone or its timeout
\* expires, and the timeout is a failure.
WorkerSelect ==
    /\ ProcessAlive /\ wpc \in {"select", "busy"}
    /\ IF txOpen
       THEN /\ wpc' \in {"busy", "panicked"}
            /\ wpc' # wpc
            /\ UNCHANGED respQ
       ELSE IF /\ StoreReadable /\ QueryOk(wreq.filter)
               /\ BindsAsI64(wreq.limit) /\ BindsAsI64(wreq.offset)
       THEN /\ respQ' = Append(respQ, DbResponse(wreq, get_rows(store, wreq.limit,
                                                          wreq.offset, wreq.filter)))
            /\ wpc' = "recv"
       ELSE /\ wpc' = "panicked"
            /\ UNCHANGED respQ
    /\ UNCHANGED <<reqQ, wreq>>
    /\ UNCHANGED <<ingestVars, progressVars, overflow_checks, pureVars, appVars, logVars, colVars>>

(***************************************************************************)
(* logalang.rs: parse_line, for the filters `name="text"` and              *)
(* `name=!"text"` of the grammar.                                          *)
(***************************************************************************)
NameChar(c) == c \notin {"=", "!", "\"", " "}

\* Rule::string: &s[1..] and then &s[..s.len() - 1] of the matched literal;
\* the first definition keeps the quotes
StringLiteralText_quoted(s) == s

StringLiteralText(s) == SubSeq(s, 2, Len(s) - 1)

\* a pair of the parse tree: its rule, the text it matched (for a string) and
\* the pairs inside it
Pair(rule, str, inner) == [rule |-> rule, str |-> str, inner |-> inner]

\* Filter::And / Filter::Or of filters[0] and filters[1]
FoldChain(op, filters) == [t |-> op, l |-> filters[1], r |-> filters[2]]

\* logalang.rs: to_filter(pairs); a rule it does not expect, or a chain of
\* fewer than two operands, panics
RECURSIVE to_filter(_)
to_filter(pairs) ==
    IF pairs = <<>> THEN [t |-> "Panic"]
    ELSE LET first_pair  == Head(pairs)
             inner_pairs == Tail(pairs)
             filters     == [k \in 1..Len(first_pair.inner) |->
                                to_filter(<<first_pair.inner[k]>>)]
         IN  CASE first_pair.rule = "not" -> Not(to_filter(inner_pairs))
               [] first_pair.rule = "and" ->
                    IF Len(filters) < 2 THEN [t |-> "Panic"] ELSE FoldChain("And", filters)
               [] first_pair.rule = "or" ->
                    IF Len(filters) < 2 THEN [t |-> "Panic"] ELSE FoldChain("Or", filters)
               [] first_pair.rule = "string" ->
                    ContainsString(StringLiteralText(first_pair.str))
               [] OTHER -> [t |-> "Panic"]

\* [!]* "text" from position k to the end of the line
RECURSIVE ParseExpression(_, _)
ParseExpression(line, k) ==
    IF k > Len(line) THEN [ok |-> FALSE]
    ELSE IF line[k] = "!"
    THEN LET inner == ParseExpression(line, k + 1)
         IN  IF inner.ok THEN [ok |-> TRUE, filter |-> Not(inner.filter)]
             ELSE [ok |-> FALSE]
    ELSE IF /\ line[k] = "\"" /\ k < Len(line) /\ line[Len(line)] = "\""
            /\ \A j \in (k + 1)..(Len(line) - 1) : line[j] # "\""
    THEN [ok |-> TRUE,
          filter |-> ContainsString(StringLiteralText(SubSeq(line, k, Len(line))))]
    ELSE [ok |-> FALSE]

logalang_parse_line(line) ==
    LET eq   == FindChar(line, "=")
        expr == ParseExpression(line, eq + 2)
    IN  IF /\ eq # -1 /\ eq > 0
           /\ \A j \in 1..eq : NameChar(line[j])
           /\ expr.ok
        THEN [ok |-> TRUE, rule |-> FilterRule(SubSeq(line, 1, eq), <<expr.filter>>)]
        ELSE [ok |-> FALSE]

(***************************************************************************)
(* crossterm events and ui/cheat_sheet.rs: Key::is_pressed                 *)
(***************************************************************************)
KeyEvent(code, ch, ctrl) == [kind |-> "Key", code |-> code, ch |-> ch, ctrl |-> ctrl]

CharKey(ch) == KeyEvent("Char", ch, FALSE)

CtrlKey(ch) == KeyEvent("Char", ch, TRUE)

CodeKey(code) == KeyEvent(code, "", FALSE)

MouseEvent(kind) == [kind |-> kind, code |-> "", ch |-> "", ctrl |-> FALSE]

\* Key(None, code)
IsPressed(event, code, ch) ==
    event.kind = "Key" /\ event.code = code /\ event.ch = ch

\* Key(Some(KeyModifiers::CONTROL), code)
IsPressedWithControl(event, code, ch) == IsPressed(event, code, ch) /\ event.ctrl

\* KeyBindings::default
BindingUp(event) == IsPressed(event, "Char", "k") \/ IsPressed(event, "Up", "")

BindingDown(event) == IsPressed(event, "Char", "j") \/ IsPressed(event, "Down", "")

BindingPgUp(event) == IsPressed(event, "PageUp", "")

BindingPgDown(event) == IsPressed(event, "PageDown", "")

BindingTop(event) == IsPressed(event, "Char", "g") \/ IsPressed(event, "Home", "")

BindingBot(event) == IsPressed(event, "Char", "G") \/ IsPressed(event, "End", "")

BindingFilter(event) == IsPressed(event, "Char", "f")

BindingColumns(event) == IsPressed(event, "Char", "c")

BindingQuit(event) == IsPressed(event, "Char", "q")

BindingConsole(event) == IsPressedWithControl(event, "Char", "c")

BindingPreview(event) == IsPressed(event, "Char", "p")

is_scroll_up(event) == event.kind = "ScrollUp"

is_scroll_down(event) == event.kind = "ScrollDown"

(***************************************************************************)
(* tui_textarea: the first line of the text and whether the cursor has     *)
(* left it; the cursor starts at the end of the first line.                *)
(***************************************************************************)
TextArea(line) == [first |-> line, below |-> FALSE]

TextAreaInput(area, event) ==
    IF event.kind = "Key" /\ event.code = "Enter"
    THEN [area EXCEPT !.below = TRUE]
    ELSE IF event.kind = "Key" /\ event.code = "Char" /\ ~event.ctrl /\ ~area.below
    THEN [area EXCEPT !.first = Append(@, event.ch)]
    ELSE area

(***************************************************************************)
(* ui/logs/mod.rs: LogFile.  The handlers are functions of the LogFile     *)
(* value `lf`: .sent collects the requests handed to DbApi::get_rows and   *)
(* .panicked says that the handler has panicked, after which it does       *)
(* nothing more.                                                           *)
(***************************************************************************)
\* the height of the table area less header and spacing (layout[0].height - 2)
RenderableRows == 20

\* the rows of the window
WindowSize == 300

NoRows == [offset |-> 0, rows |-> <<>>]

LogFileValue ==
    [selected |-> selected, tableOffset |-> tableOffset, loading |-> loading,
     mode |-> mode, logShouldQuit |-> logShouldQuit, show_preview |-> show_preview,
     filter_values |-> filter_values,
     filter_active_value_idx |-> filter_active_value_idx,
     filter_text |-> filter_text, colSelected |-> colSelected,
     colVisible |-> colVisible, sent |-> <<>>, panicked |-> FALSE]

Panic(lf) == [lf EXCEPT !.panicked = TRUE]

\* an arithmetic result that left its range: a panic of the checked build
Checked(lf, overflowed) == IF overflowed /\ overflow_checks THEN Panic(lf) ELSE lf

\* DbApi::get_rows: sender.send(..).unwrap() fails once the worker is gone
DbApi_get_rows(lf, offset, limit, filter) ==
    IF lf.panicked THEN lf
    ELSE IF wpc = "panicked" THEN Panic(lf)
    ELSE [lf EXCEPT !.sent = Append(@, DbRequest(offset, limit, filter))]

\* format!("Column{idx}")
ColumnName(idx) ==
    CASE idx = 0 -> "Column0"
      [] idx = 1 -> "Column1"
      [] idx = 2 -> "Column2"
      [] OTHER -> "Column"

RECURSIVE FiltersFrom(_, _)
FiltersFrom(values, idx) ==
    IF idx >= Len(values) THEN <<>>
    ELSE LET parsed == logalang_parse_line(values[idx + 1])
         IN  (IF parsed.ok
              THEN << FilterRule(ColumnName(idx), parsed.rule.rules) >>
              ELSE <<>>)
             \o FiltersFrom(values, idx + 1)

\* the first definition gives up on the first line that fails to parse
get_filters_until_error(lf) ==
    IF \A k \in 1..Len(lf.filter_values) : logalang_parse_line(lf.filter_values[k]).ok
    THEN FiltersFrom(lf.filter_values, 0)
    ELSE <<>>

get_filters(lf) == FiltersFrom(lf.filter_values, 0)

\* what a handler does after DbApi::get_rows has returned: select(..) and the
\* new offset of the table, whose computation may have left its range
AfterSend(sent, sel, offset, overflowed) ==
    IF sent.panicked THEN sent
    ELSE Checked([sent EXCEPT !.selected = sel, !.tableOffset = offset], overflowed)

\* apply_filter after DbApi::get_rows has returned
AfterApply(sent) ==
    IF sent.panicked THEN sent
    ELSE [sent EXCEPT !.loading = TRUE, !.tableOffset = 0, !.selected = 0,
                      !.mode = "Normal"]

apply_filter(lf) == AfterApply(DbApi_get_rows(lf, 0, WindowSize, get_filters(lf)))

\* the first select(..) of move_selection_relative
Moved(lf, delta) ==
    [lf EXCEPT !.selected =
        IF delta < 0
        THEN (IF -delta > lf.selected THEN 0 ELSE lf.selected - (-delta))
        ELSE lf.selected + delta]

\* if selection < 50 && self.rows.offset >= 50
BackStep(lf, moved) ==
    IF ~(lf.selected < 50 /\ ~ULess(rows.offset, 50)) THEN moved
    ELSE AfterSend(DbApi_get_rows(Checked(moved, USubOverflows(rows.offset, 100)),
                                  rows.offset - 100, WindowSize, get_filters(lf)),
                   lf.selected + 100, moved.tableOffset + 100,
                   UAddOverflows(moved.tableOffset, 100))

\* if selection > 200
ForwardStep(lf, back) ==
    IF back.panicked \/ ~(lf.selected > 200) THEN back
    ELSE AfterSend(DbApi_get_rows(Checked(back, UAddOverflows(rows.offset, 100)),
                                  rows.offset + 100, WindowSize, get_filters(lf)),
                   lf.selected - 99, back.tableOffset - 100,
                   USubOverflows(back.tableOffset, 100))

move_selection_relative(lf, delta) ==
    IF lf.loading THEN lf ELSE ForwardStep(lf, BackStep(lf, Moved(lf, delta)))

\* (a - b) as usize for a, b: u16
U16Sub(a, b) == IF a >= b THEN a - b ELSE 65536 + a - b

move_selection_fixed(lf, position) ==
    IF lf.loading THEN lf
    ELSE IF position < 300
    THEN AfterSend(DbApi_get_rows(lf, 0, WindowSize, get_filters(lf)), 0, 0, FALSE)
    ELSE IF USubOverflows(total_rows, WindowSize) /\ overflow_checks THEN Panic(lf)
    ELSE IF ULess(total_rows - WindowSize, position)
    THEN AfterSend(DbApi_get_rows(lf, total_rows - WindowSize, WindowSize,
                                  get_filters(lf)),
                   299, U16Sub(300, renderable_rows), renderable_rows > 300)
    ELSE AfterSend(DbApi_get_rows(lf, position, WindowSize, get_filters(lf)),
                   149, U16Sub(149, renderable_rows \div 2),
                   renderable_rows \div 2 > 149)

handle_normal_input(lf, event) ==
    IF BindingFilter(event) THEN [lf EXCEPT !.mode = "FilterSelection"]
    ELSE IF BindingColumns(event) THEN [lf EXCEPT !.mode = "Columns"]
    ELSE IF BindingQuit(event) THEN [lf EXCEPT !.logShouldQuit = TRUE]
    ELSE IF BindingUp(event) \/ is_scroll_up(event) THEN move_selection_relative(lf, -1)
    ELSE IF BindingDown(event) \/ is_scroll_down(event)
    THEN move_selection_relative(lf, 1)
    ELSE IF BindingPgUp(event) THEN move_selection_relative(lf, -renderable_rows)
    ELSE IF BindingPgDown(event) THEN move_selection_relative(lf, renderable_rows)
    ELSE IF BindingTop(event) THEN move_selection_fixed(lf, 0)
    ELSE IF BindingBot(event) THEN move_selection_fixed(lf, total_rows)
    ELSE IF BindingPreview(event) THEN [lf EXCEPT !.show_preview = ~@]
    ELSE lf

\* char::from_digit(idx + 1, 10).unwrap() is evaluated for every item up to
\* the one whose digit is pressed, and is None from the tenth item on
handle_filter_selection(lf, event) ==
    LET items   == Len(lf.colVisible)
        pressed == {idx \in 0..(Min(items, 9) - 1) :
                       IsPressed(event, "Char", Digits[idx + 2])}
    IN  IF pressed # {}
        THEN LET idx == CHOOSE x \in pressed : TRUE
             IN  [lf EXCEPT !.filter_active_value_idx = idx,
                            !.filter_text = TextArea(lf.filter_values[idx + 1]),
                            !.mode = "FilterInput"]
        ELSE IF items >= 10 THEN Panic(lf)
        ELSE lf

handle_filter_input(lf, key) ==
    IF (IsPressed(key, "Char", "f") \/ IsPressed(key, "Enter", "")) /\ key.ctrl
    THEN apply_filter([lf EXCEPT !.filter_values[lf.filter_active_value_idx + 1] =
                                     lf.filter_text.first])
    ELSE IF IsPressed(key, "Esc", "") THEN apply_filter(lf)
    ELSE lf

\* a next that steps past the last item instead of wrapping to the first
ColumnList_next_unwrapped(sel, items) == IF sel = -1 THEN 0 ELSE sel + 1

\* ui/columns.rs: ColumnList::next, the selection of the list being -1 for None
ColumnList_next(sel, items) ==
    IF sel = -1 THEN 0 ELSE IF sel >= items - 1 THEN 0 ELSE sel + 1

\* ui/columns.rs: ColumnList::previous
ColumnList_previous(sel, items) ==
    IF sel = -1 THEN 0 ELSE IF sel = 0 THEN items - 1 ELSE sel - 1

\* ui/columns.rs: ColumnList::input with next, previous and toggle
ColumnList_input(lf, event) ==
    LET items == Len(lf.colVisible)
    IN  IF BindingUp(event)
        THEN [lf EXCEPT !.colSelected = ColumnList_previous(@, items)]
        ELSE IF BindingDown(event)
        THEN [lf EXCEPT !.colSelected = ColumnList_next(@, items)]
        ELSE IF IsPressed(event, "Char", " ")
        THEN (IF lf.colSelected = -1 THEN lf
              ELSE [lf EXCEPT !.colVisible[lf.colSelected + 1] = ~@])
        ELSE IF IsPressed(event, "Char", "c") THEN [lf EXCEPT !.mode = "Normal"]
        ELSE lf

\* self.filter_text_area.input(event.clone())
FilterTextInput(handled, event) ==
    IF handled.panicked THEN handled
    ELSE [handled EXCEPT !.filter_text = TextAreaInput(@, event)]

LogFile_input(lf, event) ==
    CASE lf.mode = "Normal" -> handle_normal_input(lf, event)
      [] lf.mode = "FilterSelection" -> handle_filter_selection(lf, event)
      [] lf.mode = "FilterInput" ->
           FilterTextInput(IF event.kind = "Key" THEN handle_filter_input(lf, event)
                           ELSE lf, event)
      [] lf.mode = "Columns" -> ColumnList_input(lf, event)

\* on_rows_received for every queued response, in order: the last one stays
RECURSIVE ReceiveAll(_, _)
ReceiveAll(current, responses) ==
    IF responses = <<>> THEN current
    ELSE ReceiveAll([offset |-> Head(responses).offset, rows |-> Head(responses).rows],
                    Tail(responses))

\* Table::render keeps the selected row inside the rendered rows
RenderOffset(offset, sel, count, height) ==
    IF count = 0 THEN offset
    ELSE LET start == UMin(offset, count - 1)
             shown == Min(sel, count - 1)
         IN  IF shown < start THEN shown
             ELSE IF shown >= start + height THEN shown - height + 1
             ELSE start

(***************************************************************************)
(* ui/mod.rs: AppState::draw, with LogFile::new and LogFile::draw          *)
(***************************************************************************)
LoadComplete ==
    total_bytes # 0 /\ total_bytes = parsed_bytes /\ rows_parsed = rows_inserted

AppDraw ==
    /\ ProcessAlive /\ vpc = "run" /\ ~should_quit
    /\ IF ~logOpen /\ ~LoadComplete
       THEN \* the loading screen
            UNCHANGED <<dbVars, appVars, logVars, colVars>>
       ELSE IF ~logOpen
       THEN \* LogFile::new, then the first LogFile::draw
            IF wpc = "panicked"
            THEN /\ vpc' = "panicked"
                 /\ UNCHANGED <<dbVars, logOpen, show_console, should_quit, events,
                                logVars, colVars>>
            ELSE /\ logOpen' = TRUE
                 /\ reqQ' = Append(reqQ, DbRequest(0, WindowSize, <<>>))
                 /\ rows' = ReceiveAll(NoRows, respQ)
                 /\ respQ' = <<>>
                 /\ total_rows' = rows_inserted
                 /\ selected' = 1
                 /\ tableOffset' = RenderOffset(0, 1, Len(rows'.rows), RenderableRows)
                 /\ loading' = FALSE
                 /\ renderable_rows' = RenderableRows
                 /\ mode' = "Normal"
                 /\ logShouldQuit' = FALSE
                 /\ show_preview' = FALSE
                 /\ filter_values' = [k \in 1..(ColumnCount + 1) |-> <<>>]
                 /\ filter_active_value_idx' = 0
                 /\ filter_text' = TextArea(<<>>)
                 /\ colSelected' = -1
                 /\ colVisible' = [k \in 1..(ColumnCount + 1) |-> TRUE]
                 /\ UNCHANGED <<wpc, wreq, vpc, show_console, should_quit, events>>
       ELSE \* LogFile::draw
            /\ rows' = ReceiveAll(rows, respQ)
            /\ respQ' = <<>>
            /\ loading' = IF respQ # <<>> THEN FALSE ELSE loading
            /\ renderable_rows' = RenderableRows
            /\ tableOffset' = RenderOffset(tableOffset, selected, Len(rows'.rows),
                                           RenderableRows)
            /\ UNCHANGED <<reqQ, wpc, wreq>>
            /\ UNCHANGED <<total_rows, selected, mode, logShouldQuit, show_preview,
                           filter_values, filter_active_value_idx, filter_text>>
            /\ UNCHANGED <<appVars, colVars>>
    /\ UNCHANGED <<ingestVars, progressVars, overflow_checks, pureVars>>

(***************************************************************************)
(* ui/mod.rs: AppState::handle_events for one event                        *)
(***************************************************************************)
\* most events that the viewer handles in a run
MaxEvents == 4

\* most requests that wait in the two channels of DbApi together
MaxPending == 2

\* largest offset of a window that the viewer asks for
MaxOffset == 450

\* longest filter text typed into the text area
MaxFilterText == 1

\* the event is within the bounds of the model
Offered(event, after) ==
    /\ Len(reqQ) + Len(after.sent) + Len(respQ) <= MaxPending
    /\ \A k \in 1..Len(after.sent) : after.sent[k].offset <= MaxOffset
    /\ Len(after.filter_text.first) <= Max(MaxFilterText, Len(filter_text.first))

HandleEvents(offered) ==
    /\ ProcessAlive /\ vpc = "run" /\ ~should_quit
    /\ events < MaxEvents
    /\ events' = events + 1
    /\ \E event \in offered :
         IF BindingConsole(event)
         THEN /\ show_console' = ~show_console
              /\ UNCHANGED <<dbVars, vpc, logOpen, should_quit, logVars, colVars>>
         ELSE IF BindingQuit(event)
         THEN /\ should_quit' = TRUE
              /\ UNCHANGED <<dbVars, vpc, logOpen, show_console, logVars, colVars>>
         ELSE IF ~logOpen
         THEN UNCHANGED <<dbVars, vpc, logOpen, show_console, should_quit, logVars,
                          colVars>>
         ELSE \E after \in {LogFile_input(LogFileValue, event)} :
                  /\ Offered(event, after)
                  /\ reqQ' = reqQ \o after.sent
                  /\ vpc' = IF after.panicked THEN "panicked" ELSE vpc
                  /\ selected' = after.selected
                  /\ tableOffset' = after.tableOffset
                  /\ loading' = after.loading
                  /\ mode' = after.mode
                  /\ logShouldQuit' = after.logShouldQuit
                  /\ show_preview' = after.show_preview
                  /\ filter_values' = after.filter_values
                  /\ filter_active_value_idx' = after.filter_active_value_idx
                  /\ filter_text' = after.filter_text
                  /\ colSelected' = after.colSelected
                  /\ colVisible' = after.colVisible
                  /\ UNCHANGED <<respQ, wpc, wreq, logOpen, show_console, should_quit,
                                 total_rows, rows, renderable_rows>>
    /\ UNCHANGED <<ingestVars, progressVars, overflow_checks, pureVars>>

(***************************************************************************)
(* The load: Init is the state in which main has created the channel and   *)
(* spawned the consumer, and the application is on its loading screen.     *)
(***************************************************************************)
ViewerClosed ==
    /\ vpc = "run" /\ logOpen = FALSE /\ show_console = FALSE /\ should_quit = FALSE
    /\ events = 0
    /\ total_rows = 0 /\ selected = 0 /\ tableOffset = 0 /\ loading = FALSE
    /\ rows = NoRows /\ renderable_rows = 0 /\ mode = "Normal"
    /\ logShouldQuit = FALSE /\ show_preview = FALSE
    /\ filter_values = <<>> /\ filter_active_value_idx = 0
    /\ filter_text = TextArea(<<>>)
    /\ colSelected = -1 /\ colVisible = <<>>

NotParsed == [kind |-> "NotParsed"]

FilterIdle ==
    /\ flt_rules = <<>> /\ flt_rule_sql = <<>> /\ flt_sql = <<>> /\ flt_done = FALSE
    /\ flt_line = <<>> /\ flt_parsed = NotParsed
    /\ flt_pairs = <<>> /\ flt_filter = NotParsed

ParserIdle ==
    /\ prs_instructions = <<>> /\ prs_line = <<>> /\ prs_result = NotParsed
    /\ prs_columns = <<>> /\ prs_runs = <<>>

DbIdle ==
    /\ reqQ = <<>> /\ respQ = <<>> /\ wpc = "recv"
    /\ wreq = DbRequest(0, 0, <<>>)

Init ==
    /\ file \in Files
    /\ batch_size \in 1..MaxBatch
    /\ ppc = "read" /\ lineIdx = 1 /\ batch = <<>> /\ i = 0
    /\ chan = <<>>
    /\ cpc = "open" /\ store = <<>> /\ txOpen = FALSE /\ commits = 0
    /\ mainPc = "produce"
    /\ total_bytes = FileBytes(file)
    /\ parsed_bytes = 0 /\ rows_parsed = 0 /\ rows_inserted = 0
    /\ DbIdle
    /\ overflow_checks \in BOOLEAN
    /\ ViewerClosed
    /\ FilterIdle
    /\ ParserIdle

Next ==
    \/ ProducerLine
    \/ ProducerSend
    \/ ProducerEof
    \/ ConsumerOpen
    \/ ConsumerRecv
    \/ ConsumerCommit
    \/ MainJoin
    \/ ProcessExit
    \/ WorkerRecv
    \/ WorkerSelect
    \/ AppDraw

Spec == Init /\ [][Next]_vars

(***************************************************************************)
(* Properties of the load.                                                 *)
(***************************************************************************)
\* the load is over: main has joined the consumer, or the process has ended
LoadEnded == mainPc \in {"ui", "exited"}

StoredValues == [k \in 1..Len(store) |-> store[k].values]

LineParses(line) == parse_line(LoadFormat, line).kind = "Ok"

\* C1: once producer and consumer have both terminated, the store holds one
\* row for each of the N parsed rows, whatever N mod batch_size is
C1_BatchIntegrity ==
    (ppc = "done" /\ cpc = "done") => Len(store) = Len(file)

\* the rows that continuation handling gives: a line that fails to parse is
\* appended to the last field of the pending row and makes no row of its own
RECURSIVE ContinuationRows(_, _)
ContinuationRows(lines, done) ==
    IF lines = <<>> THEN done
    ELSE IF LineParses(Head(lines))
    THEN ContinuationRows(Tail(lines),
                          Append(done, parse_line(LoadFormat, Head(lines)).values))
    ELSE IF done = <<>> THEN ContinuationRows(Tail(lines), done)
    ELSE LET pending == done[Len(done)]
             last    == pending[Len(pending)]
             merged  == [pending EXCEPT ![Len(pending)] =
                            RowString(last.s \o Head(lines))]
         IN  ContinuationRows(Tail(lines), [done EXCEPT ![Len(done)] = merged])

\* the first line parses, so every line that fails to parse finds a pending row
HasContinuation(f) ==
    /\ f # <<>> /\ LineParses(f[1])
    /\ \E k \in 2..Len(f) : ~LineParses(f[k])

\* C2: a line that fails to parse while a row is pending is appended to the
\* last field of that row and makes no row, so the load of such a file ends
\* with the merged rows in the store
C2_Continuation ==
    (LoadEnded /\ HasContinuation(file)) => StoredValues = ContinuationRows(file, <<>>)

\* C3: a line on which parse_line fails never stops ingestion: the producer
\* reads on and terminates normally
C3_ParseFailureNeverAborts == ppc # "panicked"

\* C5: no select is executed while the bulk-insert transaction is open: the
\* step in which the worker executes a read is taken with the transaction
\* closed and the commit done
C5_NoSelectDuringLoad ==
    [][(wpc = "select" /\ wpc' # "select") => (~txOpen /\ commits > 0)]_vars

\* C7: the channel never holds more than its capacity of batches, and while
\* it is full the producer stays in its send and reads no further line
C7_BoundedChannel ==
    /\ [](Len(chan) <= ChanCap)
    /\ [][(Len(chan) = ChanCap /\ ppc = "send")
             => (ppc' = "send" /\ lineIdx' = lineIdx /\ batch' = batch)]_vars

\* the producer is blocked in its send on a full channel
C7_Witness == Len(chan) = ChanCap /\ ppc = "send"

\* C8: for any input file the consumer performs exactly one commit and
\* terminates, so a load that is over has committed once
C8_ExactlyOneCommit == LoadEnded => (commits = 1 /\ cpc = "done")

\* C15: at every moment at most one thread holds a connection to the store
C15_SingleConnection == Cardinality(ConnectionHolders) <= 1

\* C27: every batch the producer has sent holds exactly batch_size rows,
\* except possibly the last batch of the file, which holds between 1 and
\* batch_size rows; the batch in progress never holds more than batch_size
\* rows, and no empty batch is sent
C27_BatchSizes ==
    /\ Len(batch) <= batch_size
    /\ \A k \in 1..Len(chan) :
           /\ chan[k] # <<>>
           /\ Len(chan[k]) <= batch_size
           /\ Len(chan[k]) < batch_size => chan[k][Len(chan[k])].line = Len(file)

\* two full batches of two rows are in the channel and a third is in progress
C27_Witness ==
    /\ batch_size = 2 /\ Len(chan) = 2 /\ Len(batch) = 1
    /\ \A k \in 1..Len(chan) : Len(chan[k]) = 2

\* C38: for every file, once ingestion has ended and main has gone on to the
\* viewer, the readiness condition of AppState::draw holds (the counters do
\* not change any more, so a condition that is false then stays false)
C38_ReadyAfterLoad == (mainPc = "ui") => LoadComplete

\* C39: the stored rows are in file order: of any two of them, the one from
\* the earlier line has the smaller identity, and every row still in the
\* channel comes from a later line than every stored row
C39_FileOrder ==
    /\ \A a, b \in 1..Len(store) :
           store[a].line < store[b].line <=> store[a].id < store[b].id
    /\ \A a \in 1..Len(store) : \A k \in 1..Len(chan) : \A b \in 1..Len(chan[k]) :
           store[a].line < chan[k][b].line

\* two batches of two rows are stored while the next one is in the channel
C39_Witness == batch_size = 2 /\ Len(store) = 4 /\ Len(chan) = 1 /\ cpc = "recv"

(***************************************************************************)
(* The viewer: Init is the state in which a load has committed, main has   *)
(* joined the consumer, and AppState::draw has created the LogFile, which  *)
(* has sent its first request.                                             *)
(***************************************************************************)
\* the largest store that the viewer is opened on
MaxStoreRows == 350

QueryStoreSizes == {2, MaxStoreRows}

\* the table after the load of a file whose lines all parse, in batches of 1
LoadedStore(f) ==
    [k \in 1..Len(f) |->
        [id |-> k, line |-> k, values |-> parse_line(LoadFormat, f[k]).values]]

QueryEvents ==
    {CodeKey("Up"), CodeKey("Down"), CodeKey("PageUp"), CodeKey("PageDown"),
     CodeKey("Home"), CodeKey("End"), CharKey("f"), CharKey("1"), CharKey("q"),
     CtrlKey("f"), CodeKey("Esc")}

InitQuery ==
    /\ file \in {WellFormedFile(n) : n \in QueryStoreSizes}
    /\ batch_size = 1
    /\ ppc = "done" /\ lineIdx = Len(file) + 1 /\ batch = <<>> /\ i = Len(file)
    /\ chan = <<>>
    /\ cpc = "done" /\ store = LoadedStore(file) /\ txOpen = FALSE /\ commits = 1
    /\ mainPc = "ui"
    /\ total_bytes = FileBytes(file) /\ parsed_bytes = FileBytes(file)
    /\ rows_parsed = Len(file) /\ rows_inserted = Len(file)
    /\ reqQ = << DbRequest(0, WindowSize, <<>>) >> /\ respQ = <<>>
    /\ wpc = "recv" /\ wreq = DbRequest(0, 0, <<>>)
    /\ overflow_checks \in BOOLEAN
    /\ vpc = "run" /\ logOpen = TRUE /\ show_console = FALSE /\ should_quit = FALSE
    /\ events = 0
    /\ total_rows = Len(file) /\ selected = 1 /\ tableOffset = 0 /\ loading = FALSE
    /\ rows = NoRows /\ renderable_rows = RenderableRows /\ mode = "Normal"
    /\ logShouldQuit = FALSE /\ show_preview = FALSE
    /\ filter_values = [k \in 1..(ColumnCount + 1) |-> <<>>]
    /\ filter_active_value_idx = 0 /\ filter_text = TextArea(<<>>)
    /\ colSelected = -1 /\ colVisible = [k \in 1..(ColumnCount + 1) |-> TRUE]
    /\ FilterIdle
    /\ ParserIdle

HandleQueryEvents == HandleEvents(QueryEvents)

NextQuery ==
    \/ HandleQueryEvents
    \/ AppDraw
    \/ WorkerRecv
    \/ WorkerSelect

SpecQuery == InitQuery /\ [][NextQuery]_vars

(***************************************************************************)
(* Properties of the viewer and the worker.                                *)
(***************************************************************************)
\* the requests sent and not yet received back by the viewer
Outstanding ==
    Len(reqQ) + (IF wpc \in {"select", "busy"} THEN 1 ELSE 0) + Len(respQ)

\* C4: every request is answered by exactly one response that carries its
\* id, offset and limit, and a dequeued request is never dropped: the worker
\* leaves the read of a request only by sending that response
C4_EveryRequestAnswered ==
    [][(wpc = "select" /\ wpc' # "select")
          => /\ wpc' = "recv"
             /\ respQ' = Append(respQ, respQ'[Len(respQ')])
             /\ Header(respQ'[Len(respQ')]) = Header(wreq)]_vars

\* C6: at most one read request is outstanding at a time
C6_SingleOutstanding == logOpen => Outstanding <= 1

\* the identities first..last, in order
Identities(first, last) == [k \in 1..(last - first + 1) |-> first + k - 1]

\* the window that a select(offset, limit) without filters is to return on a
\* store of R rows: offset+1 .. offset+limit while that lies in the store, and
\* the final limit rows (all rows of a store shorter than limit) otherwise
WindowOf(R, offset, limit) ==
    IF offset + limit <= R THEN Identities(offset + 1, offset + limit)
    ELSE Identities(R - Min(limit, R) + 1, R)

\* C11: an unfiltered select(offset, limit) on a store of R rows returns the
\* identities offset+1 .. offset+limit when offset + limit <= R, and the final
\* limit rows, without error, when offset > R - limit
C11_WindowedRead ==
    [][(/\ wpc = "select" /\ wpc' # "select"
        /\ wreq.filter = <<>> /\ BindsAsI64(wreq.offset))
          => /\ wpc' = "recv"
             /\ respQ' = Append(respQ, DbResponse(wreq, WindowOf(Len(store), wreq.offset,
                                                                 wreq.limit)))]_vars

\* C13: submit and poll never block the caller, whatever the worker is
\* doing and however many requests are queued: a submit enqueues its request
\* and returns, and a poll returns None exactly when no response is queued
\* and the oldest queued response otherwise
C13_NonBlocking ==
    (logOpen /\ vpc = "run") =>
        /\ \A offset \in {0, MaxOffset} :
               DbApi_get_rows(LogFileValue, offset, WindowSize, <<>>) =
                   [LogFileValue EXCEPT !.sent = << DbRequest(offset, WindowSize, <<>>) >>]
        /\ DbApi_get_response = IF respQ = <<>> THEN None ELSE Some(Head(respQ))

\* the requests that are outstanding: queued, being read by the worker, or
\* answered and not yet polled
OutstandingRequests ==
    [k \in 1..Len(respQ) |-> Header(respQ[k])]
    \o (IF wpc \in {"select", "busy"} THEN << Header(wreq) >> ELSE <<>>)
    \o [k \in 1..Len(reqQ) |-> Header(reqQ[k])]

\* C14: two requests that are outstanding at the same time never carry the
\* same id
C14_DistinctIds ==
    \A j, k \in 1..Len(OutstandingRequests) :
        j # k => OutstandingRequests[j].id # OutstandingRequests[k].id

\* what a poll returns while no response is ready and the worker runs
NothingReady == ResultOk(try_recv(<<>>, FALSE))

\* C16: a query that fails (the read of the worker errors, or the worker has
\* terminated) reaches the caller as an error that differs from "no response
\* ready yet": once the worker has failed and the responses it sent are
\* polled, a poll does not return what it returns when nothing is ready
C16_FailureSurfaced ==
    (logOpen /\ vpc = "run" /\ wpc = "panicked" /\ respQ = <<>>)
        => DbApi_get_response # NothingReady

\* the relative moves of the keys: one row, or one page, up or down
RelativeMoves == {-RenderableRows, -1, 1, RenderableRows}

\* rows exist after the end of the loaded window: the window is empty or its
\* last row is not the last row of the store
RowsAfterWindow ==
    rows.rows = <<>> \/ rows.rows[Len(rows.rows)] < Len(store)

\* C28: move_selection_relative submits a request for the window 100 rows
\* earlier only when the selection is below 50 and rows exist before the
\* window start, and a request for the window 100 rows later only when the
\* selection is above the high threshold and rows exist after the window end
C28_WindowSteps ==
    (logOpen /\ vpc = "run") =>
        \A delta \in RelativeMoves :
            \A request \in Range(move_selection_relative(LogFileValue, delta).sent) :
                /\ request.offset = rows.offset - 100 =>
                       (selected < 50 /\ ULess(0, rows.offset))
                /\ request.offset = rows.offset + 100 =>
                       (selected > 200 /\ RowsAfterWindow)

\* no response is queued and none is to come: the worker waits on an empty
\* queue, or it has ended
AllResponsesPolled ==
    respQ = <<>> /\ ((wpc = "recv" /\ reqQ = <<>>) \/ wpc = "panicked")

\* the request submitted last: the last one queued, or else the one that the
\* worker took last
LastSubmitted == IF reqQ # <<>> THEN reqQ[Len(reqQ)] ELSE wreq

\* C30: after any sequence of submitted requests, once every response has
\* been polled, the loaded window (offset and rows) is that of the request
\* submitted last, never that of an older one
C30_LatestWindow ==
    (logOpen /\ AllResponsesPolled) =>
        /\ rows.offset = LastSubmitted.offset
        /\ rows.rows = get_rows(store, LastSubmitted.limit, LastSubmitted.offset,
                                LastSubmitted.filter)

\* the same while the worker is alive
LatestWindowWhileAlive == wpc # "panicked" => C30_LatestWindow

\* C31: for every store size and every sequence of navigation inputs, every
\* offset the viewer requests is computed without unsigned underflow and
\* satisfies 0 <= offset <= total_rows
C31_OffsetsInRange ==
    logOpen =>
        \A k \in 1..Len(reqQ) :
            ~Wrapped(reqQ[k].offset) /\ reqQ[k].offset <= total_rows

\* C32: jump-to-bottom (move_selection_fixed with position = total_rows)
\* ends, once its response is applied, with the last row of the store loaded
\* and selected, for every store size including stores of fewer than 300 rows
C32_JumpToBottom ==
    (/\ logOpen /\ vpc = "run" /\ wpc # "panicked" /\ ~loading
     /\ get_filters(LogFileValue) = <<>>) =>
        \E after \in {move_selection_fixed(LogFileValue, total_rows)} :
            /\ ~after.panicked /\ Len(after.sent) = 1
            /\ \E window \in {get_rows(store, after.sent[1].limit, after.sent[1].offset,
                                        after.sent[1].filter)} :
                   /\ after.selected < Len(window)
                   /\ window[after.selected + 1] = Len(store)

\* no request is outstanding: the loaded window is the one the selection
\* index refers to
WindowCurrent == reqQ = <<>> /\ respQ = <<>> /\ wpc = "recv"

\* a row index kept inside the store
ClampToStore(n) == Max(0, Min(n, total_rows - 1))

\* C33: a window shift keeps the cursor on the intended row: once the
\* response to a shift request has been applied, window offset + selection
\* index equals the absolute row index the selection had before the input
\* plus the requested delta (clamped to the store), for backward and forward
\* shifts and for every delta
C33_ShiftKeepsCursor ==
    (logOpen /\ vpc = "run" /\ ~loading /\ WindowCurrent /\ rows.rows # <<>>) =>
        \A delta \in RelativeMoves :
            \E after \in {move_selection_relative(LogFileValue, delta)} :
                (~after.panicked /\ Len(after.sent) = 1) =>
                    after.sent[1].offset + after.selected =
                        ClampToStore(rows.offset + selected + delta)

\* the plain character keys of the viewer's input
PlainCharKeys == {event \in QueryEvents : event.code = "Char" /\ ~event.ctrl}

\* C34: while the viewer is in filter-input mode, a plain character key press
\* (for example q) only edits the filter text: it never sets should_quit,
\* never toggles the console and never changes the mode.  No other key of
\* the input sets should_quit or toggles the console.
C34_FilterInputKeys ==
    [][(logOpen /\ mode = "FilterInput" /\ vpc = "run")
          => /\ should_quit' = should_quit
             /\ show_console' = show_console
             /\ \A event \in PlainCharKeys :
                    LogFile_input(LogFileValue, event).mode = "FilterInput"]_vars

(***************************************************************************)
(* The viewer with filters: Init is the state in which the filters of      *)
(* filter_values have been applied and their window drawn, and the user    *)
(* has then opened the filter of the last column (f, 3: two events) and    *)
(* typed a line.                                                           *)
(***************************************************************************)
WindowStoreSizes == {3, MaxStoreRows}

\* m="a"
LineContains == <<"m", "=", "\"", "a", "\"">>

\* m=!"a"
LineNotContains == <<"m", "=", "!", "\"", "a", "\"">>

\* m=a: no string literal
LineUnquoted == <<"m", "=", "a">>

FilterLines == {<<>>, LineContains, LineNotContains, LineUnquoted}

\* the filters applied so far: the first two columns, each line empty,
\* unparsable or a filter
AppliedFilterValues ==
    { <<first, second, <<>> >> : first \in {<<>>, LineUnquoted, LineContains},
                                 second \in {<<>>, LineUnquoted, LineNotContains} }

WindowEvents ==
    {CtrlKey("f"), CodeKey("Esc"), CodeKey("Up"), CodeKey("Down"), CodeKey("End")}

InitWindow ==
    /\ file \in {WellFormedFile(n) : n \in WindowStoreSizes}
    /\ batch_size = 1
    /\ ppc = "done" /\ lineIdx = Len(file) + 1 /\ batch = <<>> /\ i = Len(file)
    /\ chan = <<>>
    /\ cpc = "done" /\ store = LoadedStore(file) /\ txOpen = FALSE /\ commits = 1
    /\ mainPc = "ui"
    /\ total_bytes = FileBytes(file) /\ parsed_bytes = FileBytes(file)
    /\ rows_parsed = Len(file) /\ rows_inserted = Len(file)
    /\ reqQ = <<>> /\ respQ = <<>>
    /\ wpc = "recv"
    /\ filter_values \in AppliedFilterValues
    /\ wreq = DbRequest(0, WindowSize, FiltersFrom(filter_values, 0))
    /\ rows = [offset |-> 0, rows |-> get_rows(store, WindowSize, 0, wreq.filter)]
    /\ overflow_checks \in BOOLEAN
    /\ vpc = "run" /\ logOpen = TRUE /\ show_console = FALSE /\ should_quit = FALSE
    /\ events = 2
    /\ total_rows = Len(file) /\ selected = 0 /\ tableOffset = 0 /\ loading = FALSE
    /\ renderable_rows = RenderableRows /\ mode = "FilterInput"
    /\ logShouldQuit = FALSE /\ show_preview = FALSE
    /\ filter_active_value_idx = ColumnCount
    /\ filter_text \in {TextArea(line) : line \in FilterLines}
    /\ colSelected = -1 /\ colVisible = [k \in 1..(ColumnCount + 1) |-> TRUE]
    /\ FilterIdle
    /\ ParserIdle

HandleWindowEvents == HandleEvents(WindowEvents)

NextWindow ==
    \/ HandleWindowEvents
    \/ AppDraw
    \/ WorkerRecv
    \/ WorkerSelect

SpecWindow == InitWindow /\ [][NextWindow]_vars

(***************************************************************************)
(* Properties of the loaded window.  Every request of the viewer has the   *)
(* limit WindowSize, and on_rows_received keeps the offset and the rows of *)
(* a response.                                                             *)
(***************************************************************************)
\* C12 as the specification states it: at most limit rows are loaded, and
\* every loaded row's identity lies in [offset, offset + limit)
C12_WindowInvariant ==
    logOpen =>
        /\ Len(rows.rows) <= WindowSize
        /\ \A k \in 1..Len(rows.rows) :
               rows.offset <= rows.rows[k] /\ rows.rows[k] < rows.offset + WindowSize

\* C12: at most limit rows are loaded, their identities increase and every
\* one is greater than offset; and the rows read for a request without
\* filters have identities in [offset + 1, offset + limit]
C12_WindowBounds ==
    /\ [](logOpen =>
            /\ Len(rows.rows) <= WindowSize
            /\ \A k \in 1..Len(rows.rows) : rows.rows[k] > rows.offset
            /\ \A k \in 2..Len(rows.rows) : rows.rows[k - 1] < rows.rows[k])
    /\ [][(wpc = "select" /\ wpc' = "recv" /\ wreq.filter = <<>>)
             => \A k \in 1..Len(respQ'[Len(respQ')].rows) :
                    /\ respQ'[Len(respQ')].rows[k] >= wreq.offset + 1
                    /\ respQ'[Len(respQ')].rows[k] <= wreq.offset + wreq.limit]_vars

\* a window read with filters is loaded, and it reaches beyond offset + limit
C12_Witness ==
    /\ logOpen /\ rows.rows # <<>> /\ Len(rows.rows) < WindowSize
    /\ rows.rows[Len(rows.rows)] > rows.offset + WindowSize

\* the filter lines that parse, with their positions, in line order
ParsingLines(values) ==
    SelectSeq([k \in 1..Len(values) |->
                   [idx |-> k - 1, parsed |-> logalang_parse_line(values[k])]],
              LAMBDA entry : entry.parsed.ok)

\* C17: when the viewer builds the filter list of a request, a line that fails
\* to parse is skipped and does not end the program, and every line that
\* parses contributes its filters, for the column of its position, in line
\* order
C17_BadFilterSkipped ==
    [][Len(reqQ') > Len(reqQ)
          => /\ vpc' = "run"
             /\ reqQ'[Len(reqQ')].filter =
                    [k \in 1..Len(ParsingLines(filter_values')) |->
                        FilterRule(ColumnName(ParsingLines(filter_values')[k].idx),
                                   ParsingLines(filter_values')[k].parsed.rule.rules)]]_vars

\* a request carries the filters of the lines that parse while a line before
\* them is not empty and fails to parse
C17_Witness ==
    /\ vpc = "run" /\ reqQ # <<>> /\ reqQ[Len(reqQ)].filter # <<>>
    /\ \E j, k \in 1..Len(filter_values) :
           /\ j < k
           /\ filter_values[j] # <<>> /\ ~logalang_parse_line(filter_values[j]).ok
           /\ logalang_parse_line(filter_values[k]).ok

(***************************************************************************)
(* The filter compiler on its own: Init draws the rules of a read request, *)
(* at most one rule for each of two columns, and CompileFilter builds the  *)
(* WHERE clause of the request.                                            *)
(***************************************************************************)
\* most nodes (And, Or, Not, ContainsString) of a filter expression
MaxFilterNodes == 3

FilterTexts == { <<"a">>, <<"'">>, <<"a", "'", "b">> }

RECURSIVE FiltersOfSize(_)
FiltersOfSize(n) ==
    IF n = 1 THEN {ContainsString(s) : s \in FilterTexts}
    ELSE {Not(e) : e \in FiltersOfSize(n - 1)}
         \cup UNION { {And(l, r) : l \in FiltersOfSize(k), r \in FiltersOfSize(n - 1 - k)}
                      \cup {Or(l, r) : l \in FiltersOfSize(k),
                                       r \in FiltersOfSize(n - 1 - k)}
                      : k \in 1..(n - 2) }

FilterInputs == UNION {FiltersOfSize(n) : n \in 1..MaxFilterNodes}

\* expressions that nest an Or in an And, and the reverse
NestedFilters ==
    { And(Or(ContainsString(<<"a">>), ContainsString(<<"'">>)),
          ContainsString(<<"a", "'", "b">>)),
      And(ContainsString(<<"a", "'", "b">>),
          Or(ContainsString(<<"a">>), ContainsString(<<"'">>))),
      Or(And(ContainsString(<<"a">>), ContainsString(<<"'">>)),
         ContainsString(<<"a", "'", "b">>)),
      Not(And(Or(ContainsString(<<"a">>), ContainsString(<<"'">>)),
              ContainsString(<<"a", "'", "b">>))) }

\* the lists of filters of a rule: none, one of any shape, several leaves, or
\* an Or followed by a leaf
FilterLists ==
    { <<>> } \cup { <<f>> : f \in FilterInputs \cup NestedFilters }
    \cup { << Or(ContainsString(<<"a">>), ContainsString(<<"'">>)),
               ContainsString(<<"a", "'", "b">>) >> }
    \cup { <<f, g>> : f \in FiltersOfSize(1), g \in FiltersOfSize(1) }
    \cup { << ContainsString(<<"a">>), Not(ContainsString(<<"'">>)),
               ContainsString(<<"a", "'", "b">>) >> }

RulesOn(column_name) ==
    { <<>> } \cup { << FilterRule(column_name, filters) >> : filters \in FilterLists }

RuleLists == {first \o second : first \in RulesOn("Column1"), second \in RulesOn("message")}

InitFilter ==
    /\ flt_rules \in RuleLists /\ flt_rule_sql = <<>> /\ flt_sql = <<>>
    /\ flt_done = FALSE
    /\ flt_line = <<>> /\ flt_parsed = NotParsed
    /\ flt_pairs = <<>> /\ flt_filter = NotParsed
    /\ ParserIdle
    /\ file = <<>> /\ batch_size = 1
    /\ ppc = "read" /\ lineIdx = 1 /\ batch = <<>> /\ i = 0
    /\ chan = <<>>
    /\ cpc = "open" /\ store = <<>> /\ txOpen = FALSE /\ commits = 0
    /\ mainPc = "produce"
    /\ total_bytes = 0 /\ parsed_bytes = 0 /\ rows_parsed = 0 /\ rows_inserted = 0
    /\ DbIdle
    /\ overflow_checks = TRUE
    /\ ViewerClosed

\* the text of the request's predicate, from FilterRule::get_sql of each rule
CompileFilter ==
    /\ ~flt_done
    /\ flt_rule_sql' = [k \in 1..Len(flt_rules) |-> FilterRule_get_sql(flt_rules[k])]
    /\ flt_sql' = WhereClause(flt_rules)
    /\ flt_done' = TRUE
    /\ UNCHANGED <<flt_rules, flt_line, flt_parsed, flt_pairs, flt_filter>>
    /\ UNCHANGED <<ingestVars, progressVars, dbVars, overflow_checks, appVars, logVars,
                   colVars, parserVars>>

NextFilter == CompileFilter

SpecFilter == InitFilter /\ [][NextFilter]_vars

(***************************************************************************)
(* Properties of the filter compiler.                                      *)
(***************************************************************************)
\* the texts of the ContainsString leaves of a filter, left to right
RECURSIVE LeafTexts(_)
LeafTexts(f) ==
    CASE f.t = "ContainsString" -> << f.s >>
      [] f.t = "Not" -> LeafTexts(f.e)
      [] f.t \in {"And", "Or"} -> LeafTexts(f.l) \o LeafTexts(f.r)

RECURSIVE FiltersLeafTexts(_)
FiltersLeafTexts(filters) ==
    IF filters = <<>> THEN <<>>
    ELSE LeafTexts(filters[1]) \o FiltersLeafTexts(Tail(filters))

RECURSIVE RuleLeafTexts(_)
RuleLeafTexts(rules) ==
    IF rules = <<>> THEN <<>>
    ELSE FiltersLeafTexts(rules[1].rules) \o RuleLeafTexts(Tail(rules))

\* the string literals of a SQL text as the store reads them
Literals(sql) ==
    LET toks == SqlLex(sql).toks
        strs == SelectSeq(toks, LAMBDA tok : tok.t = "str")
    IN  [k \in 1..Len(strs) |-> strs[k].s]

QuoteExample == << FilterRule("message", << ContainsString(<<"a", "'", "b">>) >>) >>

\* C9: every quote of a ContainsString text is doubled in the compiled SQL,
\* so the store reads each literal back as % text %, and ContainsString("a'b")
\* on message compiles to exactly message LIKE '%a''b%'
C9_QuotesDoubled ==
    flt_done =>
        /\ SqlLex(flt_sql).ok
        /\ Literals(flt_sql) =
               [k \in 1..Len(RuleLeafTexts(flt_rules)) |->
                   <<"%">> \o RuleLeafTexts(flt_rules)[k] \o <<"%">>]
        /\ (flt_rules = QuoteExample
              => flt_sql = <<"WHERE ", "message", " LIKE ", "'", "%", "a", "'", "'",
                             "b", "%", "'">>)

\* the compiler has run on ContainsString("a'b") for message
C9_Witness ==
    flt_done /\ flt_rules = QuoteExample /\ Len(flt_sql) = 11

\* the rows that the compiled predicate is tried on
ProbeTexts == { <<>>, <<"a">>, <<"'">>, <<"a", "'", "b">> }

ProbeRows ==
    { [name \in ColumnNames |->
          CASE name = "Column1" -> first
            [] name = "message" -> last
            [] OTHER -> <<>>] : first \in ProbeTexts, last \in ProbeTexts }

\* what a filter asks of the text of its column
RECURSIVE FilterHolds(_, _)
FilterHolds(f, text) ==
    CASE f.t = "ContainsString" -> LikeMatch(text, <<"%">> \o f.s \o <<"%">>)
      [] f.t = "Not" -> ~FilterHolds(f.e, text)
      [] f.t = "And" -> FilterHolds(f.l, text) /\ FilterHolds(f.r, text)
      [] f.t = "Or" -> FilterHolds(f.l, text) \/ FilterHolds(f.r, text)

RuleHolds(rule, row) ==
    \A k \in 1..Len(rule.rules) : FilterHolds(rule.rules[k], row[rule.column_name])

\* C10: several rules on different columns are executed as their conjunction:
\* the read executes, and a row is returned only if it satisfies every rule
C10_RulesConjunction ==
    flt_done =>
        \A row \in ProbeRows :
            /\ SqlWhere(flt_sql, row).ok
            /\ SqlWhere(flt_sql, row).v
                 => \A k \in 1..Len(flt_rules) : RuleHolds(flt_rules[k], row)

\* C29: for every nested filter expression, the SQL text that Filter::get_sql
\* and FilterRule::get_sql produce, read with the precedence of SQL (NOT
\* before AND before OR), selects exactly the rows for which the expression
\* tree is true; And(Or(a, b), c) selects the rows with (a or b) and c
C29_PrecedenceEquivalence ==
    flt_done =>
        \A k \in 1..Len(flt_rules) :
            flt_rules[k].rules # <<>> =>
                \A row \in ProbeRows :
                    /\ SqlWhere(flt_rule_sql[k], row).ok
                    /\ SqlWhere(flt_rule_sql[k], row).v = RuleHolds(flt_rules[k], row)

\* the text of a literal: every quote written twice
RECURSIVE QuotesDoubled(_)
QuotesDoubled(text) ==
    IF text = <<>> THEN <<>>
    ELSE QuotesDoubled(SubSeq(text, 1, Len(text) - 1))
         \o (IF text[Len(text)] = "'" THEN <<"'", "'">> ELSE << text[Len(text)] >>)

\* the SQL that the specification gives for an expression on column c
RECURSIVE SqlOf(_, _)
SqlOf(f, c) ==
    IF f.t = "ContainsString"
    THEN <<c, " LIKE ", "'", "%">> \o QuotesDoubled(f.s) \o <<"%", "'">>
    ELSE IF f.t = "Not" THEN <<"NOT (">> \o SqlOf(f.e, c) \o <<")">>
    ELSE IF f.t = "And" THEN SqlOf(f.l, c) \o <<" AND ">> \o SqlOf(f.r, c)
    ELSE SqlOf(f.l, c) \o <<" OR ">> \o SqlOf(f.r, c)

\* C18: Filter::get_sql compiles, recursively for every expression,
\* ContainsString(s) on column c to c LIKE '%s%' (the quotes of s doubled, C9),
\* Not(e) to NOT (<e>), And(l, r) to <l> AND <r> and Or(l, r) to <l> OR <r>
C18_StructuralCompile ==
    flt_done =>
        \A k \in 1..Len(flt_rules) :
            Len(flt_rules[k].rules) = 1
                => flt_rule_sql[k] =
                       <<"WHERE ">> \o SqlOf(flt_rules[k].rules[1], flt_rules[k].column_name)

\* the compiler has run on Not(Not(ContainsString)) and on an And or an Or
C18_Witness ==
    /\ flt_done /\ Len(flt_rules) = 2
    /\ flt_rules[1].rules # <<>> /\ flt_rules[1].rules[1].t = "Not"
    /\ flt_rules[1].rules[1].e.t = "Not"
    /\ flt_rules[2].rules # <<>> /\ flt_rules[2].rules[1].t \in {"And", "Or"}
    /\ flt_rule_sql[1][2] = "NOT ("

\* the compiled filters of a rule, one after the other with the separator
\* before every one but the first
RECURSIVE AndJoined(_, _, _)
AndJoined(rule, k, acc) ==
    IF k > Len(rule.rules) THEN acc
    ELSE AndJoined(rule, k + 1,
                   acc \o (IF k = 1 THEN <<>> ELSE <<" AND ">>)
                       \o SqlOf(rule.rules[k], rule.column_name))

\* C19: FilterRule::get_sql returns the empty string for a rule with no
\* filters, and otherwise "WHERE " followed by the compiled filters of the
\* rule joined by " AND " in their order
C19_RuleWhere ==
    flt_done =>
        \A k \in 1..Len(flt_rules) :
            flt_rule_sql[k] =
                IF flt_rules[k].rules = <<>> THEN <<>>
                ELSE <<"WHERE ">> \o AndJoined(flt_rules[k], 1, <<>>)

\* the compiler has run on a rule without filters and on a rule with three
C19_Witness ==
    /\ flt_done /\ Len(flt_rules) = 2
    /\ flt_rules[1].rules = <<>> /\ flt_rule_sql[1] = <<>>
    /\ Len(flt_rules[2].rules) = 3 /\ flt_rule_sql[2][1] = "WHERE "

(***************************************************************************)
(* The line parser on its own: Init draws an instruction list and a line,  *)
(* and ParseLine applies Parser::parse_line.                               *)
(***************************************************************************)
\* longest instruction list drawn freely from ParserInstructions
MaxInstructions == 3

\* ENUM(W,IW,I)
LevelVariants == << <<"W">>, <<"I", "W">>, <<"I">> >>

ParserInstructions ==
    { Begin, Skip(1), SkipUntilChar(" "), SkipUntilString(<<",", "6">>), EmitString,
      EmitDate, EmitEnumeration(<< <<"I">>, <<"W">> >>), EmitEnumeration(LevelVariants),
      EmitRemainder }

\* {Time:DATE} {Level:ENUM(I,W)} {Message:REST}
DatedFormat ==
    << SkipUntilChar(","), Skip(4), EmitDate, Skip(1), Begin, SkipUntilChar(" "),
       EmitEnumeration(<< <<"I">>, <<"W">> >>), Skip(1), Begin, EmitRemainder >>

ParserFormats ==
    SeqsUpTo(ParserInstructions, MaxInstructions) \cup {LoadFormat, DatedFormat}

\* 2023-12-04 01:12:30,690
DateText2023 ==
    <<"2", "0", "2", "3", "-", "1", "2", "-", "0", "4", " ", "0", "1", ":", "1", "2",
      ":", "3", "0", ",", "6", "9", "0">>

\* a level in lower case, a level of two bytes, an empty level
LineLowerCase == <<"i", " ", "a">>

LineLongLevel == <<"I", "W", " ", "a">>

LineEmptyLevel == <<" ", "a">>

ParserLines ==
    { <<>>, LineInfo, LineWarn, LineUnknownLevel, LineNoDelimiter, LineLowerCase,
      LineLongLevel, LineEmptyLevel, DateText2023,
      DateText2023 \o <<" ">> \o LineInfo, DateText2023 \o <<" ">> \o LineWarn }

InitParse ==
    /\ prs_instructions \in ParserFormats
    /\ prs_line \in ParserLines
    /\ prs_result = NotParsed
    /\ prs_columns = <<>> /\ prs_runs = <<>>
    /\ file = <<>> /\ batch_size = 1
    /\ ppc = "read" /\ lineIdx = 1 /\ batch = <<>> /\ i = 0
    /\ chan = <<>>
    /\ cpc = "open" /\ store = <<>> /\ txOpen = FALSE /\ commits = 0
    /\ mainPc = "produce"
    /\ total_bytes = 0 /\ parsed_bytes = 0 /\ rows_parsed = 0 /\ rows_inserted = 0
    /\ DbIdle
    /\ overflow_checks = TRUE
    /\ ViewerClosed
    /\ FilterIdle

\* self.parse_line(line): the caller gets Ok or Err, or the call panics
ParseLine ==
    /\ prs_result = NotParsed
    /\ prs_result' = parse_line(prs_instructions, prs_line)
    /\ UNCHANGED <<prs_instructions, prs_line, prs_columns, prs_runs>>
    /\ UNCHANGED <<ingestVars, progressVars, dbVars, overflow_checks, appVars, logVars,
                   colVars, filterVars>>

NextParse == ParseLine

SpecParse == InitParse /\ [][NextParse]_vars

(***************************************************************************)
(* Properties of the line parser.                                          *)
(***************************************************************************)
\* the Emit* instructions of a list, in order
EmitInstructions(instructions) ==
    SelectSeq(instructions,
              LAMBDA ins : ins.op \in {"EmitDate", "EmitString", "EmitEnumeration",
                                       "EmitRemainder"})

\* the type of the value of an Emit* instruction
EmittedType(ins) ==
    IF ins.op = "EmitDate" THEN "Date"
    ELSE IF ins.op = "EmitEnumeration" THEN "Integer"
    ELSE "String"

\* C20: when parse_line succeeds, its result holds exactly one value for each
\* Emit* instruction, in instruction order, each of the type of its
\* instruction: a Date for EmitDate, an Integer for EmitEnumeration, a String
\* for EmitString and EmitRemainder
C20_FixedShape ==
    prs_result.kind = "Ok" =>
        /\ Len(prs_result.values) = Len(EmitInstructions(prs_instructions))
        /\ \A k \in 1..Len(prs_result.values) :
               prs_result.values[k].type =
                   EmittedType(EmitInstructions(prs_instructions)[k])

\* parse_line has succeeded on a line with a date, a level and a message
C20_Witness ==
    /\ prs_result.kind = "Ok" /\ prs_instructions = DatedFormat
    /\ Len(prs_result.values) = 3
    /\ prs_result.values[1].type = "Date"
    /\ prs_result.values[2] = RowInteger(1)
    /\ prs_result.values[3] = RowString(<<"b">>)

\* the outcome of one EmitEnumeration on the slice [begin_index, index) of a line
EmitOutcome(ins, line, begin_index, index) ==
    ParseFrom(<<ins>>, line, 1, index, begin_index, <<>>)

\* the outcome is Integer(i) for the slice that is variant i, Err for any other
EnumerationOutcome(enums, value, outcome) ==
    \/ \E v \in 1..Len(enums) : enums[v] = value /\ outcome = ParseOk(<<RowInteger(v - 1)>>)
    \/ (\A v \in 1..Len(enums) : enums[v] # value) /\ outcome = ParseErr

\* the instruction lists whose enumeration field is the text before the first space
LevelFieldFormats ==
    { <<SkipUntilChar(" "), ins>> : ins \in {x \in ParserInstructions : x.op = "EmitEnumeration"} }

\* C21: for every enumeration and every line, EmitEnumeration produces
\* Integer(i) when the slice [mark, index) equals variant i byte for byte and
\* fails with the unknown-enum error for every other slice, both for each
\* slice of the line taken on its own and for the level field of a parsed line
C21_EnumerationRoundTrip ==
    prs_result # NotParsed =>
        /\ \A k \in 1..Len(prs_instructions) :
               prs_instructions[k].op = "EmitEnumeration" =>
                   \A index \in 0..Len(prs_line) : \A begin_index \in 0..index :
                       EnumerationOutcome(prs_instructions[k].enums,
                                          Slice0(prs_line, begin_index, index),
                                          EmitOutcome(prs_instructions[k], prs_line,
                                                      begin_index, index))
        /\ (prs_instructions \in LevelFieldFormats /\ SplitOnce(prs_line, " ").found) =>
               EnumerationOutcome(prs_instructions[2].enums,
                                  SplitOnce(prs_line, " ").left, prs_result)

\* the level I of "I a" is the third of the variants W, IW, I
C21_Witness ==
    /\ prs_instructions = <<SkipUntilChar(" "), EmitEnumeration(LevelVariants)>>
    /\ prs_line = LineInfo
    /\ prs_result = ParseOk(<<RowInteger(2)>>)

\* the bytes a list of Skip and Begin instructions moves the cursor by
RECURSIVE SkippedBytes(_)
SkippedBytes(instructions) ==
    IF instructions = <<>> THEN 0
    ELSE (IF Head(instructions).op = "Skip" THEN Head(instructions).n ELSE 0)
         + SkippedBytes(Tail(instructions))

SkipsOnly(instructions) ==
    \A k \in 1..Len(instructions) : instructions[k].op \in {"Skip", "Begin"}

\* C22: Skip(n) is checked: when index + n exceeds the line length parse_line
\* fails for that line with an error value, so a list of Skip instructions
\* that moves the cursor beyond the end of the line never returns Ok, and
\* within the line a Skip moves the cursor by exactly n
C22_SkipChecked ==
    prs_result # NotParsed =>
        /\ (SkipsOnly(prs_instructions) /\ SkippedBytes(prs_instructions) > Len(prs_line)) =>
               prs_result.kind = "Err"
        /\ (prs_instructions = <<Skip(1), EmitString>> /\ Len(prs_line) >= 1) =>
               prs_result = ParseOk(<<RowString(<<prs_line[1]>>)>>)

\* C23: when the character or string of a SkipUntilChar / SkipUntilString
\* does not occur at or after the cursor, parse_line returns an error value
\* for that line to its caller; otherwise the cursor moves to the first
\* occurrence at or after its position
C23_DelimiterNotFound ==
    (prs_result # NotParsed /\ prs_instructions # <<>>) =>
        /\ (Head(prs_instructions).op = "SkipUntilChar"
              /\ FindChar(prs_line, Head(prs_instructions).ch) < 0) =>
               prs_result.kind = "Err"
        /\ (Head(prs_instructions).op = "SkipUntilString"
              /\ FindStr(prs_line, Head(prs_instructions).text) < 0) =>
               prs_result.kind = "Err"
        /\ (prs_instructions = <<SkipUntilChar(" "), EmitString>>
              /\ SplitOnce(prs_line, " ").found) =>
               prs_result = ParseOk(<<RowString(SplitOnce(prs_line, " ").left)>>)

(***************************************************************************)
(* One Parser used for several lines: Init constructs it with Parser::new  *)
(* and ParseNext runs parse_line on one more line.                         *)
(***************************************************************************)
\* most columns of a list drawn freely, most runs of one parser
MaxColumns == 2

MaxRuns == 3

ColumnDefinitions ==
    { ColumnDefinition("Message", ColumnType_String),
      ColumnDefinition("Time", ColumnType_Date),
      ColumnDefinition("Level", ColumnType_Enumeration(<< <<"I">>, <<"W">> >>)) }

\* the columns of {Time:DATE} {Level:ENUM(I,W)} {Message:REST}
DatedColumns ==
    << ColumnDefinition("Time", ColumnType_Date),
       ColumnDefinition("Level", ColumnType_Enumeration(<< <<"I">>, <<"W">> >>)),
       ColumnDefinition("Message", ColumnType_String) >>

ColumnLists == SeqsUpTo(ColumnDefinitions, MaxColumns) \cup {DatedColumns}

RunFormats ==
    { LoadFormat, DatedFormat, <<EmitString>>, <<Skip(1), Begin, EmitRemainder>>,
      <<SkipUntilChar(" "), EmitString, EmitEnumeration(LevelVariants)>>,
      <<Skip(2), EmitString, Begin, EmitRemainder>> }

RunLines ==
    { LineInfo, LineWarn, LineUnknownLevel, LineNoDelimiter,
      DateText2023 \o <<" ">> \o LineWarn }

InitParser ==
    /\ \E instructions \in RunFormats, columns \in ColumnLists :
           /\ prs_instructions = Parser_new(instructions, columns).instructions
           /\ prs_columns = Parser_new(instructions, columns).columns
    /\ prs_runs = <<>>
    /\ prs_line = <<>> /\ prs_result = NotParsed
    /\ file = <<>> /\ batch_size = 1
    /\ ppc = "read" /\ lineIdx = 1 /\ batch = <<>> /\ i = 0
    /\ chan = <<>>
    /\ cpc = "open" /\ store = <<>> /\ txOpen = FALSE /\ commits = 0
    /\ mainPc = "produce"
    /\ total_bytes = 0 /\ parsed_bytes = 0 /\ rows_parsed = 0 /\ rows_inserted = 0
    /\ DbIdle
    /\ overflow_checks = TRUE
    /\ ViewerClosed
    /\ FilterIdle

\* parser.parse_line(line) once more; a run that panicked has unwound the
\* thread that holds the parser
ParseNext(line) ==
    /\ Len(prs_runs) < MaxRuns
    /\ \A k \in 1..Len(prs_runs) : prs_runs[k].result.kind # "Panic"
    /\ prs_runs' = Append(prs_runs,
                          [line |-> line,
                           result |-> Parser_parse_line(prs_runs, prs_instructions, line)])
    /\ UNCHANGED <<prs_instructions, prs_line, prs_result, prs_columns>>
    /\ UNCHANGED <<ingestVars, progressVars, dbVars, overflow_checks, appVars, logVars,
                   colVars, filterVars>>

NextParser == \E line \in RunLines : ParseNext(line)

SpecParser == InitParser /\ [][NextParser]_vars

\* the ColumnType of the value an Emit* instruction emits
ColumnTypeOf(ins) ==
    IF ins.op = "EmitDate" THEN ColumnType_Date
    ELSE IF ins.op = "EmitEnumeration" THEN ColumnType_Enumeration(ins.enums)
    ELSE ColumnType_String

\* C24: for every Parser that can be constructed, the number of Emit*
\* instructions equals the number of ColumnDefinitions and the i-th Emit*
\* instruction has the type of the i-th ColumnDefinition
C24_LockStep ==
    /\ Len(EmitInstructions(prs_instructions)) = Len(prs_columns)
    /\ \A k \in 1..Len(prs_columns) :
           ColumnTypeOf(EmitInstructions(prs_instructions)[k]) = prs_columns[k].column_type

MaxLiteral == 2

FilterColumns == { <<"m">>, <<"c", "1">> }

\* the bytes of a literal: none of them is the double quote
LiteralBytes == {"a", "'", " ", "=", "!"}

LiteralTexts == SeqsUpTo(LiteralBytes, MaxLiteral)

\* col="text"
QuotedLine(col, text) == col \o <<"=", "\"">> \o text \o <<"\"">>

\* col=!"text"
NegatedLine(col, text) == col \o <<"=", "!", "\"">> \o text \o <<"\"">>

FilterLineInputs ==
    { QuotedLine(col, text) : col \in FilterColumns, text \in LiteralTexts }
    \cup { NegatedLine(col, text) : col \in FilterColumns, text \in LiteralTexts }
    \cup { <<>>, LineUnquoted, <<"m", "=">>, <<"m", "=", "\"", "a">>, <<"=", "\"", "a", "\"">> }

InitLogalang ==
    /\ flt_line \in FilterLineInputs /\ flt_parsed = NotParsed
    /\ flt_pairs = <<>> /\ flt_filter = NotParsed
    /\ flt_rules = <<>> /\ flt_rule_sql = <<>> /\ flt_sql = <<>> /\ flt_done = FALSE
    /\ ParserIdle
    /\ file = <<>> /\ batch_size = 1
    /\ ppc = "read" /\ lineIdx = 1 /\ batch = <<>> /\ i = 0
    /\ chan = <<>>
    /\ cpc = "open" /\ store = <<>> /\ txOpen = FALSE /\ commits = 0
    /\ mainPc = "produce"
    /\ total_bytes = 0 /\ parsed_bytes = 0 /\ rows_parsed = 0 /\ rows_inserted = 0
    /\ DbIdle
    /\ overflow_checks = TRUE
    /\ ViewerClosed

\* logalang::parse_line(line)
ParseFilterLine ==
    /\ flt_parsed = NotParsed
    /\ flt_parsed' = logalang_parse_line(flt_line)
    /\ UNCHANGED <<flt_rules, flt_rule_sql, flt_sql, flt_done, flt_line, flt_pairs,
                   flt_filter>>
    /\ UNCHANGED <<ingestVars, progressVars, dbVars, overflow_checks, appVars, logVars,
                   colVars, parserVars>>

NextLogalang == ParseFilterLine

SpecLogalang == InitLogalang /\ [][NextLogalang]_vars

\* C25: parse_line on text of the form col="text" returns a FilterRule whose
\* column_name is col and whose rules are exactly one ContainsString(text),
\* text being the literal without its surrounding double quotes and with no
\* other character changed
C25_QuotedLiteral ==
    flt_parsed # NotParsed =>
        \A col \in FilterColumns, text \in LiteralTexts :
            flt_line = QuotedLine(col, text) =>
                flt_parsed = [ok |-> TRUE,
                              rule |-> FilterRule(col, <<ContainsString(text)>>)]

\* c1="a'" has been parsed: the apostrophe of the literal is still there
C25_Witness ==
    /\ flt_line = QuotedLine(<<"c", "1">>, <<"a", "'">>)
    /\ flt_parsed # NotParsed /\ flt_parsed.ok
    /\ flt_parsed.rule.rules = <<ContainsString(<<"a", "'">>)>>

(***************************************************************************)
(* The viewer over formats of every width: Init is the state after         *)
(* LogFile::new for a format of 0..MaxFormatColumns columns, the Id column *)
(* making one item more, over a loaded table of two rows.                  *)
(***************************************************************************)
MaxFormatColumns == 9

ColumnEvents ==
    {CharKey("f"), CharKey("c"), CharKey("1"), CharKey(" "),
     CodeKey("Up"), CodeKey("Down")}

InitColumns ==
    /\ file = WellFormedFile(2)
    /\ batch_size = 1
    /\ ppc = "done" /\ lineIdx = Len(file) + 1 /\ batch = <<>> /\ i = Len(file)
    /\ chan = <<>>
    /\ cpc = "done" /\ store = LoadedStore(file) /\ txOpen = FALSE /\ commits = 1
    /\ mainPc = "ui"
    /\ total_bytes = FileBytes(file) /\ parsed_bytes = FileBytes(file)
    /\ rows_parsed = Len(file) /\ rows_inserted = Len(file)
    /\ reqQ = << DbRequest(0, WindowSize, <<>>) >> /\ respQ = <<>>
    /\ wpc = "recv" /\ wreq = DbRequest(0, 0, <<>>)
    /\ overflow_checks \in BOOLEAN
    /\ vpc = "run" /\ logOpen = TRUE /\ show_console = FALSE /\ should_quit = FALSE
    /\ events = 0
    /\ total_rows = Len(file) /\ selected = 1 /\ tableOffset = 0 /\ loading = FALSE
    /\ rows = NoRows /\ renderable_rows = RenderableRows /\ mode = "Normal"
    /\ logShouldQuit = FALSE /\ show_preview = FALSE
    /\ \E columns_count \in 0..MaxFormatColumns :
           /\ filter_values = [k \in 1..(columns_count + 1) |-> <<>>]
           /\ colVisible = [k \in 1..(columns_count + 1) |-> TRUE]
    /\ filter_active_value_idx = 0 /\ filter_text = TextArea(<<>>)
    /\ colSelected = -1
    /\ FilterIdle
    /\ ParserIdle

HandleColumnEvents == HandleEvents(ColumnEvents)

NextColumns ==
    \/ HandleColumnEvents
    \/ AppDraw
    \/ WorkerRecv
    \/ WorkerSelect

SpecColumns == InitColumns /\ [][NextColumns]_vars

\* C35: for every number of columns, handling an input event in
\* filter-selection mode does not crash, and pressing the digit shown for a
\* column opens the filter input for that column with a
\* filter_active_value_idx that is a valid index into filter_values
C35_FilterSelection ==
    (logOpen /\ vpc = "run" /\ mode = "FilterSelection") =>
        /\ \A event \in ColumnEvents :
               ~handle_filter_selection(LogFileValue, event).panicked
        /\ \A idx \in 0..(Min(Len(colVisible), 9) - 1) :
               \E after \in {handle_filter_selection(LogFileValue,
                                                       CharKey(Digits[idx + 2]))} :
                   /\ ~after.panicked /\ after.mode = "FilterInput"
                   /\ after.filter_active_value_idx = idx
                   /\ idx < Len(after.filter_values)

\* C40: the selection of the column list is None or an index of an item, and
\* next and previous move it by one, from the last item to the first and
\* from the first to the last
C40_ColumnSelection ==
    /\ colSelected \in -1..(Len(colVisible) - 1)
    /\ (logOpen /\ mode = "Columns" /\ colSelected # -1) =>
           \E items \in {Len(colVisible)} :
               /\ ColumnList_input(LogFileValue, CodeKey("Down")).colSelected
                      = (colSelected + 1) % items
               /\ ColumnList_input(LogFileValue, CodeKey("Up")).colSelected
                      = (colSelected + items - 1) % items
               /\ ColumnList_input(LogFileValue, CodeKey("Down")).colSelected
                      \in 0..(items - 1)
               /\ ColumnList_input(LogFileValue, CodeKey("Up")).colSelected
                      \in 0..(items - 1)

\* the list of three items is open and its last item is selected, after Up
\* from the first item: the next Down wraps to the first
C40_Witness ==
    /\ mode = "Columns" /\ Len(colVisible) = 3 /\ colSelected = 2 /\ events = 3

(***************************************************************************)
(* to_filter on its own: Init draws the pairs of a parse tree of the       *)
(* grammar expr := NOT expr | expr (AND expr)+ | expr (OR expr)+ | STRING, *)
(* a chain being one pair whose inner pairs are its operands.              *)
(***************************************************************************)
MaxOperands == 3

StringPair(text) == Pair("string", <<"\"">> \o text \o <<"\"">>, <<>>)

ChainPair(rule, operands) == Pair(rule, <<>>, operands)

StringPairs == {StringPair(<<"a">>), StringPair(<<"b">>)}

\* the operands of a chain: literals, and chains of two literals
OperandPairs ==
    StringPairs
    \cup {ChainPair(rule, <<l, r>>) : rule \in {"and", "or"}, l \in StringPairs,
                                       r \in {StringPair(<<"c">>)}}

ChainsOf(k) ==
    {ChainPair(rule, operands) : rule \in {"and", "or"},
                                 operands \in [1..k -> OperandPairs]}

PairInputs ==
    LET chains == UNION {ChainsOf(k) : k \in 2..MaxOperands}
    IN  {<<chain>> : chain \in chains}
        \cup {<<Pair("not", <<>>, <<>>), chain>> : chain \in ChainsOf(2)}
        \cup {<<pair>> : pair \in StringPairs}

InitFold ==
    /\ flt_pairs \in PairInputs /\ flt_filter = NotParsed
    /\ flt_line = <<>> /\ flt_parsed = NotParsed
    /\ flt_rules = <<>> /\ flt_rule_sql = <<>> /\ flt_sql = <<>> /\ flt_done = FALSE
    /\ ParserIdle
    /\ file = <<>> /\ batch_size = 1
    /\ ppc = "read" /\ lineIdx = 1 /\ batch = <<>> /\ i = 0
    /\ chan = <<>>
    /\ cpc = "open" /\ store = <<>> /\ txOpen = FALSE /\ commits = 0
    /\ mainPc = "produce"
    /\ total_bytes = 0 /\ parsed_bytes = 0 /\ rows_parsed = 0 /\ rows_inserted = 0
    /\ DbIdle
    /\ overflow_checks = TRUE
    /\ ViewerClosed

\* to_filter(pairs)
FoldPairs ==
    /\ flt_filter = NotParsed
    /\ flt_filter' = to_filter(flt_pairs)
    /\ UNCHANGED <<flt_rules, flt_rule_sql, flt_sql, flt_done, flt_line, flt_parsed,
                   flt_pairs>>
    /\ UNCHANGED <<ingestVars, progressVars, dbVars, overflow_checks, appVars, logVars,
                   colVars, parserVars>>

NextFold == FoldPairs

SpecFold == InitFold /\ [][NextFold]_vars

\* the operands of a chain of op in a Filter, left to right
RECURSIVE ChainOperands(_, _)
ChainOperands(op, filter) ==
    IF filter.t = op
    THEN ChainOperands(op, filter.l) \o ChainOperands(op, filter.r)
    ELSE <<filter>>

RECURSIVE Concat(_)
Concat(seqs) == IF seqs = <<>> THEN <<>> ELSE Head(seqs) \o Concat(Tail(seqs))

ChainOp(rule) == IF rule = "and" THEN "And" ELSE "Or"

\* C36: the Filter folded from an AND chain or an OR chain of k >= 2 operands
\* holds every operand of the chain, in order; none is dropped when k > 2
C36_ChainOperands ==
    (flt_filter # NotParsed /\ Len(flt_pairs) = 1
     /\ flt_pairs[1].rule \in {"and", "or"}) =>
        \E op \in {ChainOp(flt_pairs[1].rule)} :
            ChainOperands(op, flt_filter)
                = Concat([k \in 1..Len(flt_pairs[1].inner) |->
                             ChainOperands(op, to_filter(<<flt_pairs[1].inner[k]>>))])

(***************************************************************************)
(* The load with a store that can fail: every call of the consumer on the  *)
(* connection is followed by .unwrap() or .expect(), so an error of the    *)
(* store at any point ends the consumer's thread.  The threads are         *)
(* scheduled by the operating system: the producer and main, which run on  *)
(* the main thread, keep taking the steps they can take.                   *)
(***************************************************************************)
InitFailure ==
    /\ file \in {WellFormedFile(n) : n \in 0..MaxLongFile}
    /\ batch_size \in 1..MaxBatch
    /\ ppc = "read" /\ lineIdx = 1 /\ batch = <<>> /\ i = 0
    /\ chan = <<>>
    /\ cpc = "open" /\ store = <<>> /\ txOpen = FALSE /\ commits = 0
    /\ mainPc = "produce"
    /\ total_bytes = FileBytes(file)
    /\ parsed_bytes = 0 /\ rows_parsed = 0 /\ rows_inserted = 0
    /\ DbIdle
    /\ overflow_checks = TRUE
    /\ ViewerClosed
    /\ FilterIdle
    /\ ParserIdle

\* Connection::open, execute_batch, execute, transaction, prepare_cached,
\* stmt.execute or commit returns Err: the thread panics, the transaction is
\* rolled back and the receiver is dropped with the batches it still holds
ConsumerFail ==
    /\ ProcessAlive /\ cpc \in {"open", "recv"}
    /\ cpc' = "panicked"
    /\ txOpen' = FALSE
    /\ store' = <<>>
    /\ UNCHANGED <<file, batch_size, ppc, lineIdx, batch, i, chan, commits, mainPc>>
    /\ UNCHANGED <<progressVars, dbVars, overflow_checks, pureVars, appVars, logVars, colVars>>

NextFailure ==
    \/ ProducerLine
    \/ ProducerSend
    \/ ProducerEof
    \/ ConsumerOpen
    \/ ConsumerRecv
    \/ ConsumerCommit
    \/ ConsumerFail
    \/ MainJoin
    \/ ProcessExit

SpecFailure ==
    /\ InitFailure /\ [][NextFailure]_vars
    /\ WF_vars(ProducerLine) /\ WF_vars(ProducerSend) /\ WF_vars(ProducerEof)
    /\ WF_vars(MainJoin) /\ WF_vars(ProcessExit)

\* C37: once the consumer has terminated abnormally, a producer that is at
\* a send, with the channel full or not, does not wait: the send fails, and
\* the load ends with the end of the process
C37_ProducerUnblocked ==
    /\ (cpc = "panicked" /\ ppc = "send") ~> (ppc = "panicked")
    /\ (cpc = "panicked") ~> (mainPc = "exited")

\* the consumer failed while the channel was full and the producer was
\* waiting to send one more batch; the send has failed
C37_Witness ==
    /\ cpc = "panicked" /\ ppc = "panicked" /\ Len(chan) = ChanCap
    /\ lineIdx <= Len(file)

====
